---- MODULE Spec2Model ----
(***************************************************************************)
(* ArbitrageEngine (src/src/engine.py) over a Redis keyspace.              *)
(*                                                                         *)
(* Prices are decimal odds in hundredths (2.15 is 215), so that            *)
(* 1/a + 1/b < 1.0 is decided exactly by integer arithmetic; on every      *)
(* price pair of OddsInputs the IEEE-754 comparison of the code gives the  *)
(* same verdict.  Time is datetime.now().timestamp() in whole seconds.     *)
(* Every await on Redis is a separate step of a call, so that calls        *)
(* interleave exactly where the coroutine can be suspended.                *)
(***************************************************************************)
EXTENDS Integers, Sequences, FiniteSets, TLC

\* ---------------------------------------------------------------- bounds
MaxUpdates == 2
MaxTicks == 1
MaxStoreTicks == 2
MaxSweeps == 1
MaxCycles == 4
MaxConnects == 2
MaxSupervised == 2
MaxRefreshes == 2
MaxPool == 3

\* ------------------------------------------------------ program constants
OddsTTL == 1800
StalenessBound == 60
FailureThreshold == 3
MaxReconnectAttempts == 10
ReconnectBackoffBase == 2
MaxDelay == 300
WebsocketTimeout == 300
NoMessage == -1
Cooldown == 10
NoAlert == -1

\* ----------------------------------------------------------- input sets
Events == {"e1", "e2"}
SerialEvents == {"e1"}
Tasks == {1, 2}
Markets == {"moneyline"}
Books == {"Pinnacle", "bet365", "Betway"}
Outcomes == {"home", "away", "draw"}
TickSteps == {60, 61}

\* clock steps to one second before the TTL and on to one second past it
StoreTickSteps == {OddsTTL - 1, 2}

\* max_age_seconds: a short age and the default of line 313
SweepMaxAges == {60, 3600}

EmptyOdds == [o \in {} |-> 0]

OddsInputs ==
    { ("home" :> 215 @@ "away" :> 185),
      ("home" :> 300 @@ "away" :> 150),
      ("home" :> (-200) @@ "away" :> (-100)),
      EmptyOdds }

\* the valid updates among them
StoreOddsInputs ==
    { ("home" :> 215 @@ "away" :> 185),
      ("home" :> 300 @@ "away" :> 150) }

\* ---------------------------------------------------------------- state
VARIABLES
    redis,          \* [data: key -> hash, expires: key -> absolute expiry time]
    now,            \* wall clock, seconds
    ticks,          \* number of clock advances so far
    calls,          \* per task: the process_odds_update coroutine it runs
    arrived,        \* number of process_odds_update calls started so far
    stats,          \* ArbitrageEngine.stats
    serialRedis,    \* keyspace of the same calls run one after another
    reply,          \* the last answer of get_current_odds / get_active_events
    sweep,          \* the cleanup_stale_odds coroutine
    component_health,   \* HealthMonitor.component_health
    monitor,        \* position of the start_monitoring loop
    system_stats,   \* HealthMonitor.system_stats
    probes,         \* per component: what its probes and alerts have been
    interceptor,    \* the Interceptor's fields
    listen,         \* position of the Interceptor.listen coroutine
    heartbeat,      \* the _heartbeat_loop tasks
    closer,         \* position of a call of Interceptor.close
    recover,        \* position of Acheron._recover_interceptor
    acheron,        \* the orchestrator: start(), shutdown(), the refresh loop
    scout,          \* the Scout's session
    notifier,       \* the Notifier: cooldowns and the alert calls under way
    proxy_manager   \* the ProxyManager's fields

storeOps == <<reply, sweep>>

healthVars == <<component_health, monitor, system_stats, probes>>

interceptorVars == <<interceptor, listen, heartbeat, closer, recover>>

serviceVars == <<acheron, scout, notifier, proxy_manager>>

vars == <<redis, now, ticks, calls, arrived, stats, serialRedis, storeOps,
          healthVars, interceptorVars, serviceVars>>

\* ------------------------------------------------------------ dict.get
Get(d, k, default) == IF k \in DOMAIN d THEN d[k] ELSE default

\* str.lower() on the book names of Books
Lower(book) ==
    CASE book = "Pinnacle" -> "pinnacle"
      [] book = "Betway" -> "betway"
      [] OTHER -> book

\* ------------------------------------------------------- Redis commands
EmptyDb == [data |-> [k \in {} |-> 0], expires |-> [k \in {} |-> 0]]

Restrict(f, S) == [k \in S |-> f[k]]

\* keyIsExpired: a key is gone once the clock is past its expiry time
Live(db, key, t) ==
    /\ key \in DOMAIN db.data
    /\ (key \in DOMAIN db.expires => t <= db.expires[key])

Purge(db, t) ==
    LET keep == {k \in DOMAIN db.data : Live(db, k, t)}
    IN  [data |-> Restrict(db.data, keep),
         expires |-> Restrict(db.expires, keep \cap DOMAIN db.expires)]

\* HSET key field value [field value ...]: creates the hash if absent, keeps
\* the other fields and the expiry of an existing one
HSET(db, key, mapping) ==
    LET old == IF key \in DOMAIN db.data THEN db.data[key] ELSE [f \in {} |-> 0]
    IN  [db EXCEPT !.data = (key :> (mapping @@ old)) @@ db.data]

EXPIREMutKeepTTL(db, key, seconds, t) ==
    IF key \in DOMAIN db.data /\ key \notin DOMAIN db.expires
    THEN [db EXCEPT !.expires = (key :> (t + seconds)) @@ db.expires]
    ELSE db

\* EXPIRE key seconds: no effect on a missing key
EXPIRE(db, key, seconds, t) ==
    IF key \in DOMAIN db.data
    THEN [db EXCEPT !.expires = (key :> (t + seconds)) @@ db.expires]
    ELSE db

EXISTS(db, key) == key \in DOMAIN db.data

HGETALL(db, key) == IF key \in DOMAIN db.data THEN db.data[key] ELSE [f \in {} |-> 0]

\* -------------------------------------------------- detection arithmetic
\* prob = 1/a + 1/b < 1.0 for prices a, b in hundredths.  A zero price gives
\* 1/0 = inf in Lua (never below 1.0); Python never divides by it.
ImpliedProbBelowOne(a, b) ==
    IF a = 0 \/ b = 0 THEN FALSE
    ELSE IF a * b > 0 THEN 100 * (a + b) < a * b
    ELSE 100 * (a + b) > a * b

\* n / d rounded to the nearest integer, d # 0
RoundDiv(n, d) ==
    IF d > 0 THEN (2 * n + d) \div (2 * d)
    ELSE (2 * (-n) + (-d)) \div (2 * (-d))

\* "%.2f" of ((1 / prob) - 1) * 100, in hundredths of a percent:
\* (1/prob - 1) * 100 = (a*b - 100*(a+b)) / (a+b).  prob = 0 gives "inf".
ProfitPct(a, b) ==
    IF a + b = 0 THEN [inf |-> TRUE, hundredths |-> 0]
    ELSE [inf |-> FALSE,
          hundredths |-> RoundDiv(100 * (a * b - 100 * (a + b)), a + b)]

\* "%.4f" of prob, in ten-thousandths
ImpliedProb4(a, b) == RoundDiv(10000 * 100 * (a + b), a * b)

None == [found |-> FALSE]

\* -------------------------------------------------------------- keys
PinnacleKey(event_id, market_type) == <<"pinnacle", event_id, market_type>>

SoftKey(event_id, market_type) == <<"soft", event_id, market_type>>

\* lines 124-127: every book other than pinnacle writes the one soft key
StoreKey(event_id, market_type, book) ==
    IF Lower(book) = "pinnacle"
    THEN PinnacleKey(event_id, market_type)
    ELSE SoftKey(event_id, market_type)

ShouldCheckMutAnyBook(book) == TRUE

\* line 133: the check runs only for a Pinnacle update
ShouldCheck(book) == Lower(book) = "pinnacle"

\* ----------------------------------------------------------- _store_odds
\* the mapping written by _store_odds; a missing outcome is stored as 0
StoreData(odds, market_type, timestamp) ==
    [home |-> Get(odds, "home", 0),
     away |-> Get(odds, "away", 0),
     draw |-> Get(odds, "draw", 0),
     market_type |-> market_type,
     timestamp |-> timestamp]

\* ------------------------------------------------- the inline Lua script
\* Runs atomically inside Redis at time t.  tonumber(HGET ...) of a missing
\* field is nil, which the script treats like 0.
CheckArbScript(db, pinnacle_key, soft_key, home_odd, away_odd, draw_odd, timestamp, t) ==
    LET db1 == HSET(db, pinnacle_key,
                    [home |-> home_odd, away |-> away_odd,
                     draw |-> draw_odd, timestamp |-> timestamp])
        db2 == EXPIRE(db1, pinnacle_key, OddsTTL, t)
        soft_away == Get(HGETALL(db2, soft_key), "away", 0)
        result ==
            IF ~EXISTS(db2, soft_key) THEN None
            ELSE IF soft_away = 0 THEN None
            ELSE IF ImpliedProbBelowOne(home_odd, soft_away)
            THEN [found |-> TRUE, type |-> "2-way",
                  profit_pct |-> ProfitPct(home_odd, soft_away)]
            ELSE None
    IN  [db |-> db2, result |-> result]

\* ------------------------------------------------- the Python fallback
\* line 246
IsStale(current_timestamp, soft_timestamp) ==
    (current_timestamp - soft_timestamp) > StalenessBound

\* lines 233-268, on the reply soft_data of HGETALL, at time t
CheckArbitragePythonResult(soft_data, pinnacle_odds, t) ==
    LET soft_away == Get(soft_data, "away", 0)
        soft_timestamp == Get(soft_data, "timestamp", 0)
        home_odd == Get(pinnacle_odds, "home", 0)
    IN  IF DOMAIN soft_data = {} THEN None
        ELSE IF IsStale(t, soft_timestamp) THEN None
        ELSE IF home_odd > 0 /\ soft_away > 0
                /\ ImpliedProbBelowOne(home_odd, soft_away)
        THEN [found |-> TRUE, type |-> "2-way",
              profit_pct |-> ProfitPct(home_odd, soft_away),
              leg1 |-> [book |-> "pinnacle", market |-> "home", odd |-> home_odd],
              leg2 |-> [book |-> "soft", market |-> "away", odd |-> soft_away],
              implied_prob |-> ImpliedProb4(home_odd, soft_away)]
        ELSE None

\* ------------------------------------------------------ exception frames
CatchesExceptionMutNoOuter(frame) ==
    frame \in {"_check_arbitrage_lua", "_check_arbitrage_python"}

\* the try/except Exception blocks: lines 116/154, 191/214, 229/270
CatchesException(frame) ==
    frame \in {"process_odds_update", "_check_arbitrage_lua",
               "_check_arbitrage_python"}

NotifierCatchesExceptionMutNone == FALSE

\* notifier.py:94-96 and 216-221: send_arbitrage_alert and _send_ntfy answer
\* every exception with False
NotifierCatchesException == TRUE

\* replies of the POST to ntfy.sh
NtfyReplies == {"200", "status", "exception"}

\* ------------------------------------------------------------- the calls
Idle == [pc |-> "idle"]

\* main.py:121 constructs the engine with the notifier
NotifierConfigured == TRUE

\* ------------------------------------------------------ health monitor
\* main.py:139-158: the components in registration order, which is the order
\* of the loop on line 105
Components == <<"interceptor", "proxy_manager", "notifier">>

Registered == {Components[i] : i \in 1..Len(Components)}

\* main.py:139-155: the components registered with a recovery_callback
RecoveryCallbacks == {"interceptor"}

\* main.py:136: HealthMonitor(self.config, notifier=self.notifier)
MonitorNotifier == TRUE

\* lines 72-77: the record of a newly registered component (last_check and
\* last_healthy are written only, never read by the monitor)
RegisterComponent == [status |-> "unknown", consecutive_failures |-> 0]

\* lines 124-158: the answers a probe can give; the notifier's is always True
ProbeAnswers(name) == IF name = "notifier" THEN {TRUE} ELSE BOOLEAN

\* nothing has been probed or sent for a component
NoProbe ==
    [failed_since_success |-> 0, streak_alerts |-> 0, recovered_alerts |-> 0,
     previous_status |-> "unknown", previous_failures |-> 0, probed |-> 0,
     recovered_alert |-> "none"]

\* get_proxy has not been called
NoProxyCall == [purpose |-> "none", proxy |-> "none", configured |-> FALSE,
                pool_size |-> 0]

\* no frame: also the text of a frame that json.loads rejects
NoFrame == [json |-> FALSE, object |-> FALSE, keys |-> {}, type |-> "",
            type_is_str |-> TRUE, eventId |-> "", odds_is_dict |-> FALSE,
            home |-> "0", away |-> "0"]

\* no read has been answered; cleanup_stale_odds is not running
NoReply == [op |-> "none"]

NoSweep ==
    [pc |-> "idle", max_age_seconds |-> 0, current_time |-> 0, todo |-> {},
     key |-> <<>>, cleaned |-> 0, runs |-> 0]

Init ==
    /\ redis = EmptyDb
    /\ now = 0
    /\ ticks = 0
    /\ calls = [c \in Tasks |-> Idle]
    /\ arrived = 0
    /\ stats = [odds_updates |-> 0, arbs_detected |-> 0, arbs_alerted |-> 0,
                lua_executions |-> 0]
    /\ serialRedis = EmptyDb
    /\ reply = NoReply
    /\ sweep = NoSweep
    /\ component_health = [n \in Registered |-> RegisterComponent]
    /\ monitor = [pc |-> "sleep", i |-> 0, cycles |-> 0,
                  previous_status |-> "unknown", failures |-> 0,
                  excepting |-> FALSE]
    /\ system_stats = [total_health_checks |-> 0, component_failures |-> 0,
                       recoveries_triggered |-> 0, alerts_sent |-> 0]
    /\ probes = [n \in Registered |-> NoProbe]
    /\ interceptor = [is_connected |-> FALSE, is_running |-> FALSE,
                      reconnect_attempts |-> 0, time_since_msg |-> NoMessage,
                      websocket |-> "None", connects |-> 0,
                      time_since_frame |-> NoMessage,
                      time_since_connect |-> NoMessage, session_data |-> 1]
    /\ listen = [pc |-> "idle", delay |-> 0, failures |-> 0, waits |-> 0,
                 cancelled_at |-> "none", frame |-> NoFrame, route |-> "none"]
    /\ heartbeat = [tasks |-> 0, last_ping |-> "none"]
    /\ closer = [pc |-> "idle"]
    /\ recover = [pc |-> "idle", succeeded |-> FALSE]
    /\ acheron = [start |-> "notify", shutdown_event |-> FALSE,
                  refresh |-> "sleep", reauthenticated |-> FALSE]
    /\ scout = [cookies |-> "set", since_auth |-> 0, session |-> 1]
    /\ notifier = [since_alert |-> [e \in Events |-> NoAlert],
                   since_sent |-> [e \in Events |-> NoAlert],
                   alerts |-> [c \in Tasks |->
                       [pc |-> "idle", event_key |-> "none", outcome |-> "none"]]]
    /\ proxy_manager = [use_proxy_for |-> {"authentication"},
                        rotation_enabled |-> TRUE, proxy_pool |-> <<>>,
                        current_proxy_index |-> 0, initialized |-> FALSE,
                        returned |-> NoProxyCall]

\* process_odds_update run to completion on db at time t, no Redis failure:
\* _store_odds, then the script for a Pinnacle update
SerialRun(db, event_id, market_type, book, odds, t) ==
    LET key == StoreKey(event_id, market_type, book)
        db1 == EXPIRE(HSET(db, key, StoreData(odds, market_type, t)), key, OddsTTL, t)
    IN  IF ShouldCheck(book)
        THEN CheckArbScript(db1, PinnacleKey(event_id, market_type),
                            SoftKey(event_id, market_type),
                            Get(odds, "home", 0), Get(odds, "away", 0),
                            Get(odds, "draw", 0), t, t)
        ELSE [db |-> db1, result |-> None]

\* lines 116-121: the call takes its timestamp and reaches its first await.
\* The fields from stored on record what the call did, for the properties.
Begin(c, event_id, market_type, book, odds, serial) ==
    /\ arrived < MaxUpdates
    /\ calls[c] = Idle
    /\ \A d \in Tasks : d < c => calls[d] # Idle
    /\ arrived' = arrived + 1
    /\ calls' = [calls EXCEPT ![c] =
            [pc |-> "hset", event_id |-> event_id, market_type |-> market_type,
             book |-> book, odds |-> odds, timestamp |-> now, result |-> None,
             stored |-> FALSE, checked |-> FALSE, interleaved |-> FALSE,
             superseded |-> FALSE,
             luaFailed |-> FALSE, pyFailed |-> FALSE,
             seenSoft |-> EmptyOdds, checkedAt |-> 0,
             detected |-> FALSE, notified |-> FALSE,
             alerts |-> 0, alert |-> "none",
             rewrite |-> FALSE, storedAt |-> 0, ttlSet |-> FALSE,
             serialResult |-> serial]]
    /\ UNCHANGED <<redis, now, ticks, stats, storeOps, healthVars, interceptorVars, serviceVars>>

\* a call made when the previous one has returned, as the interceptor's
\* receive loop makes them (interceptor.py:292, awaited per message)
ProcessOddsUpdate(c, event_id, market_type, book, odds) ==
    /\ \A d \in Tasks : calls[d] = Idle
    /\ Begin(c, event_id, market_type, book, odds, None)
    /\ UNCHANGED serialRedis

\* the same arrival, with the serial execution advanced alongside
Arrive(c, event_id, market_type, book, odds) ==
    LET r == SerialRun(serialRedis, event_id, market_type, book, odds, now)
    IN  /\ Begin(c, event_id, market_type, book, odds, r.result)
        /\ serialRedis' = r.db

\* an exception reaches the try block of process_odds_update
Escapes(call) ==
    IF CatchesException("process_odds_update")
    THEN [call EXCEPT !.pc = "done", !.result = None]
    ELSE [call EXCEPT !.pc = "raised", !.result = None]

\* return value r of the check, back in process_odds_update (lines 142-152)
AfterCheck(call, r, event_info) ==
    IF r.found
    THEN IF NotifierConfigured /\ event_info
         THEN [call EXCEPT !.pc = "notify", !.result = r, !.detected = TRUE]
         ELSE [call EXCEPT !.pc = "done", !.result = r, !.detected = TRUE]
    ELSE [call EXCEPT !.pc = "done", !.result = None]

\* the calls that have written their snapshot and not yet checked it
BetweenStoreAndCheck(d, event_id, market_type) ==
    /\ calls[d].pc \in {"expire", "lua", "hgetall"}
    /\ calls[d].event_id = event_id
    /\ calls[d].market_type = market_type

\* call c continues as call; wrote says that this step wrote to the keys of
\* its (event, market)
Settle(c, call, newStats, wrote) ==
    /\ calls' = [d \in Tasks |->
            IF d = c THEN call
            ELSE IF wrote /\ BetweenStoreAndCheck(d, call.event_id, call.market_type)
            THEN [calls[d] EXCEPT !.interleaved = TRUE]
            ELSE calls[d]]
    /\ stats' = IF call.detected /\ ~calls[c].detected
                THEN [newStats EXCEPT !.arbs_detected = @ + 1]
                ELSE newStats

\* the key already holds, with a TTL, the very snapshot the call is storing
AlreadyStored(db, key, call) ==
    /\ key \in DOMAIN db.expires
    /\ HGETALL(db, key) = StoreData(call.odds, call.market_type, call.timestamp)

\* line 174: await self.redis.hset(key, mapping=data)
StoreOddsHSet(c, ok) ==
    LET call == calls[c]
        key == StoreKey(call.event_id, call.market_type, call.book)
    IN  /\ call.pc = "hset"
        /\ IF ok
           THEN /\ redis' = HSET(redis, key,
                        StoreData(call.odds, call.market_type, call.timestamp))
                /\ Settle(c, [call EXCEPT !.pc = "expire",
                                          !.rewrite = AlreadyStored(redis, key, call)],
                          stats, TRUE)
           ELSE /\ Settle(c, Escapes(call), stats, FALSE)
                /\ UNCHANGED redis
        /\ UNCHANGED <<now, ticks, arrived, serialRedis, storeOps, healthVars, interceptorVars, serviceVars>>

\* line 175: await self.redis.expire(key, 1800); then lines 130-133.  The
\* reply of EXPIRE (0 when the key is gone) is not looked at.
StoreOddsExpire(c, ok) ==
    LET call == calls[c]
        key == StoreKey(call.event_id, call.market_type, call.book)
        counted == [stats EXCEPT !.odds_updates = @ + 1]
    IN  /\ call.pc = "expire"
        /\ IF ok
           THEN /\ redis' = EXPIRE(redis, key, OddsTTL, now)
                /\ IF ShouldCheck(call.book)
                   THEN Settle(c, [call EXCEPT !.pc = "lua", !.stored = TRUE,
                                               !.storedAt = now,
                                               !.ttlSet = EXISTS(redis, key)],
                               counted, FALSE)
                   ELSE Settle(c, [call EXCEPT !.pc = "done", !.stored = TRUE,
                                               !.storedAt = now,
                                               !.ttlSet = EXISTS(redis, key),
                                               !.result = None], counted, FALSE)
           ELSE /\ Settle(c, Escapes(call), stats, FALSE)
                /\ UNCHANGED redis
        /\ UNCHANGED <<now, ticks, arrived, serialRedis, storeOps, healthVars, interceptorVars, serviceVars>>

\* lines 191-217: await the registered script; on an exception fall back.
\* event_info is the caller's argument, first read on line 146.
CheckArbitrageLua(c, ok, event_info) ==
    LET call == calls[c]
        pk == PinnacleKey(call.event_id, call.market_type)
        sk == SoftKey(call.event_id, call.market_type)
        r == CheckArbScript(redis, pk, sk,
                            Get(call.odds, "home", 0), Get(call.odds, "away", 0),
                            Get(call.odds, "draw", 0), call.timestamp, now)
        seen == [call EXCEPT !.checked = TRUE,
                             !.superseded =
                                HGETALL(redis, pk) #
                                    StoreData(call.odds, call.market_type, call.timestamp),
                             !.seenSoft = HGETALL(redis, sk),
                             !.checkedAt = now]
        failed == [call EXCEPT !.checked = TRUE, !.luaFailed = TRUE]
    IN  /\ call.pc = "lua"
        /\ IF ok
           THEN /\ redis' = r.db
                /\ Settle(c, AfterCheck(seen, r.result, event_info),
                          [stats EXCEPT !.lua_executions = @ + 1], TRUE)
           ELSE /\ UNCHANGED redis
                /\ IF CatchesException("_check_arbitrage_lua")
                   THEN Settle(c, [failed EXCEPT !.pc = "hgetall"], stats, FALSE)
                   ELSE Settle(c, Escapes(failed), stats, FALSE)
        /\ UNCHANGED <<now, ticks, arrived, serialRedis, storeOps, healthVars, interceptorVars, serviceVars>>

\* lines 229-272: await self.redis.hgetall(soft_key), then the local check
CheckArbitragePython(c, ok, event_info) ==
    LET call == calls[c]
        sk == SoftKey(call.event_id, call.market_type)
        soft_data == HGETALL(redis, sk)
        seen == [call EXCEPT !.seenSoft = soft_data, !.checkedAt = now]
        failed == [call EXCEPT !.pyFailed = TRUE]
    IN  /\ call.pc = "hgetall"
        /\ IF ok
           THEN Settle(c, AfterCheck(seen,
                    CheckArbitragePythonResult(soft_data, call.odds, now),
                    event_info), stats, FALSE)
           ELSE IF CatchesException("_check_arbitrage_python")
                THEN Settle(c, AfterCheck(failed, None, event_info), stats, FALSE)
                ELSE Settle(c, Escapes(failed), stats, FALSE)
        /\ UNCHANGED <<redis, now, ticks, arrived, serialRedis, storeOps, healthVars, interceptorVars, serviceVars>>

\* line 148, after send_arbitrage_alert has returned True or False
AlertReturned(call, outcome) == [call EXCEPT !.pc = "done", !.alert = outcome]

\* an exception inside send_arbitrage_alert: logged and answered with False
\* by the notifier, or else raised into process_odds_update
AlertRaised(call, outcome) ==
    IF NotifierCatchesException
    THEN AlertReturned(call, outcome)
    ELSE Escapes([call EXCEPT !.alert = "raised"])

\* arbs_alerted is counted when the call came back, whatever it answered
AlertStats(call) ==
    IF call.pc = "done" /\ call.alert # "raised"
    THEN [stats EXCEPT !.arbs_alerted = @ + 1]
    ELSE stats

\* line 147: await self.notifier.send_arbitrage_alert(arb_result, event_info),
\* up to its first suspension (notifier.py:58-84).  skip is the answer of the
\* profit threshold and the cooldown; _build_message reads arb_data['leg1']
\* of a 2-way result, which the script's result does not carry (KeyError).
SendArbitrageAlert(c, skip) ==
    LET call == [calls[c] EXCEPT !.notified = TRUE, !.alerts = @ + 1]
        next == IF skip THEN AlertReturned(call, "skipped")
                ELSE IF call.result.type = "2-way" /\ "leg1" \notin DOMAIN call.result
                THEN AlertRaised(call, "error")
                ELSE [call EXCEPT !.pc = "alerting", !.alert = "pending"]
    IN  /\ calls[c].pc = "notify"
        /\ Settle(c, next, AlertStats(next), FALSE)
        /\ UNCHANGED <<redis, now, ticks, arrived, serialRedis, storeOps, healthVars, interceptorVars, serviceVars>>

\* notifier.py:204-221: the POST to ntfy.sh completes with status 200, with
\* another status, or with an exception that _send_ntfy answers with False
SendNtfy(c, response) ==
    LET call == calls[c]
        next == CASE response = "200" -> AlertReturned(call, "sent")
                  [] response = "status" -> AlertReturned(call, "failed")
                  [] OTHER -> AlertRaised(call, "failed")
    IN  /\ call.pc = "alerting"
        /\ Settle(c, next, AlertStats(next), FALSE)
        /\ UNCHANGED <<redis, now, ticks, arrived, serialRedis, storeOps, healthVars, interceptorVars, serviceVars>>

\* the caller takes the return value; the task is free for the next call
Return(c) ==
    /\ calls[c].pc \in {"done", "raised"}
    /\ calls' = [calls EXCEPT ![c] = Idle]
    /\ UNCHANGED <<redis, now, ticks, arrived, stats, serialRedis, storeOps, healthVars, interceptorVars, serviceVars>>

\* the clock advances; Redis drops the keys whose expiry has passed
Tick(d) ==
    /\ ticks < MaxTicks
    /\ ticks' = ticks + 1
    /\ now' = now + d
    /\ redis' = Purge(redis, now + d)
    /\ UNCHANGED <<calls, arrived, stats, serialRedis, storeOps, healthVars, interceptorVars, serviceVars>>

Next ==
    \/ \E c \in Tasks, e \in SerialEvents, m \in Markets, b \in Books, o \in OddsInputs :
          ProcessOddsUpdate(c, e, m, b, o)
    \/ \E c \in Tasks, ok \in BOOLEAN : StoreOddsHSet(c, ok)
    \/ \E c \in Tasks, ok \in BOOLEAN : StoreOddsExpire(c, ok)
    \/ \E c \in Tasks, ok \in BOOLEAN, i \in BOOLEAN : CheckArbitrageLua(c, ok, i)
    \/ \E c \in Tasks, ok \in BOOLEAN, i \in BOOLEAN : CheckArbitragePython(c, ok, i)
    \/ \E c \in Tasks : SendArbitrageAlert(c, TRUE)
    \/ \E c \in Tasks : Return(c)
    \/ \E d \in TickSteps : Tick(d)

Spec == Init /\ [][Next]_vars

\* calls one at a time that carry event metadata, with every path of the
\* notifier call
NextAlert ==
    \/ \E c \in Tasks, e \in SerialEvents, m \in Markets, b \in Books, o \in StoreOddsInputs :
          ProcessOddsUpdate(c, e, m, b, o)
    \/ \E c \in Tasks, ok \in BOOLEAN : StoreOddsHSet(c, ok)
    \/ \E c \in Tasks, ok \in BOOLEAN : StoreOddsExpire(c, ok)
    \/ \E c \in Tasks, ok \in BOOLEAN : CheckArbitrageLua(c, ok, TRUE)
    \/ \E c \in Tasks, ok \in BOOLEAN : CheckArbitragePython(c, ok, TRUE)
    \/ \E c \in Tasks, skip \in BOOLEAN : SendArbitrageAlert(c, skip)
    \/ \E c \in Tasks, response \in NtfyReplies : SendNtfy(c, response)
    \/ \E c \in Tasks : Return(c)
    \/ \E d \in TickSteps : Tick(d)

SpecAlert == Init /\ [][NextAlert]_vars

\* concurrent calls with Redis answering every command and the clock standing
\* still, against the same calls run one after another in arrival order
NextConc ==
    \/ \E c \in Tasks, e \in Events, m \in Markets, b \in Books, o \in OddsInputs :
          Arrive(c, e, m, b, o)
    \/ \E c \in Tasks : StoreOddsHSet(c, TRUE)
    \/ \E c \in Tasks : StoreOddsExpire(c, TRUE)
    \/ \E c \in Tasks, i \in BOOLEAN : CheckArbitrageLua(c, TRUE, i)
    \/ \E c \in Tasks, skip \in BOOLEAN : SendArbitrageAlert(c, skip)

SpecConc == Init /\ [][NextConc]_vars

\* ------------------------------------------------- reading the store
\* DEL key
DEL(db, key) ==
    [data |-> Restrict(db.data, DOMAIN db.data \ {key}),
     expires |-> Restrict(db.expires, DOMAIN db.expires \ {key})]

\* lines 283-288: the answer built from the hash of the reference key
CurrentOdds(data) ==
    [found |-> TRUE,
     home |-> Get(data, "home", 0), away |-> Get(data, "away", 0),
     draw |-> Get(data, "draw", 0), timestamp |-> Get(data, "timestamp", 0)]

\* lines 274-292: get_current_odds reads the reference key only; an empty
\* hash and a Redis failure are both answered with None
GetCurrentOdds(event_id, market_type, ok) ==
    LET data == HGETALL(redis, PinnacleKey(event_id, market_type))
    IN  /\ reply' = [op |-> "get_current_odds", event_id |-> event_id,
                      market_type |-> market_type, at |-> now, ok |-> ok,
                      value |-> IF ok /\ DOMAIN data # {}
                                THEN CurrentOdds(data) ELSE None]
        /\ UNCHANGED <<redis, now, ticks, calls, arrived, stats, serialRedis, sweep, healthVars, interceptorVars, serviceVars>>

\* the orders in which SCAN can return the keys of S
Orders(S) ==
    {q \in [1..Cardinality(S) -> S] :
        \A i, j \in 1..Cardinality(S) : i # j => q[i] # q[j]}

\* lines 298-305: the event id of each key, kept once, in scan order
RECURSIVE EventIds(_, _)
EventIds(keys, acc) ==
    IF keys = <<>> THEN acc
    ELSE LET event_id == Head(keys)[2]
         IN  EventIds(Tail(keys),
                      IF \E i \in 1..Len(acc) : acc[i] = event_id
                      THEN acc ELSE Append(acc, event_id))

\* lines 294-311: get_active_events scans "odds:pinnacle:*"; a Redis failure
\* is answered with []
GetActiveEvents(ok) ==
    \E order \in Orders({k \in DOMAIN redis.data : k[1] = "pinnacle"}) :
        /\ reply' = [op |-> "get_active_events", at |-> now, ok |-> ok,
                      value |-> IF ok THEN EventIds(order, <<>>) ELSE <<>>]
        /\ UNCHANGED <<redis, now, ticks, calls, arrived, stats, serialRedis, sweep, healthVars, interceptorVars, serviceVars>>

\* ------------------------------------------------------------ the sweep
\* line 331: any Redis failure ends cleanup_stale_odds
SweepFailed == [sweep EXCEPT !.pc = "done"]

\* after a key has been dealt with: the next key of the scan, or the end
SweepOn(sw, key) ==
    LET todo == sw.todo \ {key}
    IN  [sw EXCEPT !.todo = todo, !.pc = IF todo = {} THEN "done" ELSE "hget"]

\* lines 313-317: cleanup_stale_odds(max_age_seconds) reads the clock once
CleanupStaleOdds(max_age_seconds) ==
    /\ sweep.pc = "idle"
    /\ sweep.runs < MaxSweeps
    /\ sweep' = [pc |-> "scan", max_age_seconds |-> max_age_seconds,
                  current_time |-> now, todo |-> {}, key |-> <<>>,
                  cleaned |-> 0, runs |-> sweep.runs + 1]
    /\ UNCHANGED <<redis, now, ticks, calls, arrived, stats, serialRedis, reply, healthVars, interceptorVars, serviceVars>>

\* line 319: scan_iter(match="odds:*") fetches the keys
SweepScan(ok) ==
    /\ sweep.pc = "scan"
    /\ sweep' = IF ok
                THEN [sweep EXCEPT !.todo = DOMAIN redis.data,
                                   !.pc = IF DOMAIN redis.data = {}
                                          THEN "done" ELSE "hget"]
                ELSE SweepFailed
    /\ UNCHANGED <<redis, now, ticks, calls, arrived, stats, serialRedis, reply, healthVars, interceptorVars, serviceVars>>

\* lines 320-324: await hget(key, 'timestamp'); a missing key or field is
\* skipped, an entry older than max_age_seconds is to be deleted
SweepHGet(key, ok) ==
    LET data == HGETALL(redis, key)
    IN  /\ sweep.pc = "hget"
        /\ key \in sweep.todo
        /\ sweep' = IF ~ok THEN SweepFailed
                    ELSE IF /\ "timestamp" \in DOMAIN data
                            /\ sweep.current_time - data.timestamp
                                  > sweep.max_age_seconds
                    THEN [sweep EXCEPT !.pc = "delete", !.key = key]
                    ELSE SweepOn(sweep, key)
        /\ UNCHANGED <<redis, now, ticks, calls, arrived, stats, serialRedis, reply, healthVars, interceptorVars, serviceVars>>

\* lines 325-326: await delete(key); cleaned += 1
SweepDelete(ok) ==
    /\ sweep.pc = "delete"
    /\ IF ok
       THEN /\ redis' = DEL(redis, sweep.key)
            /\ sweep' = SweepOn([sweep EXCEPT !.cleaned = @ + 1], sweep.key)
       ELSE /\ sweep' = SweepFailed
            /\ UNCHANGED redis
    /\ UNCHANGED <<now, ticks, calls, arrived, stats, serialRedis, reply, healthVars, interceptorVars, serviceVars>>

\* lines 328-332: cleanup_stale_odds returns
SweepReturn ==
    /\ sweep.pc = "done"
    /\ sweep' = [NoSweep EXCEPT !.runs = sweep.runs]
    /\ UNCHANGED <<redis, now, ticks, calls, arrived, stats, serialRedis, reply, healthVars, interceptorVars, serviceVars>>

\* the clock advances by a step that takes a snapshot up to and past its TTL
TickStore(d) ==
    /\ ticks < MaxStoreTicks
    /\ ticks' = ticks + 1
    /\ now' = now + d
    /\ redis' = Purge(redis, now + d)
    /\ UNCHANGED <<calls, arrived, stats, serialRedis, storeOps, healthVars, interceptorVars, serviceVars>>

\* no update is between its first and its last step
Quiescent == \A c \in Tasks : calls[c].pc \in {"idle", "done", "raised"}

\* the caller of get_current_odds / get_active_events takes the answer
ReplyTaken ==
    /\ reply # NoReply
    /\ reply' = NoReply
    /\ UNCHANGED <<redis, now, ticks, calls, arrived, stats, serialRedis, sweep, healthVars, interceptorVars, serviceVars>>

\* no answer is waiting to be taken
Ready == reply = NoReply

\* updates one at a time on one event, with get_current_odds called while no
\* update is running and the clock passing the TTL
NextTTL ==
    \/ Ready /\ \E c \in Tasks, e \in SerialEvents, m \in Markets, b \in Books,
                     o \in StoreOddsInputs : ProcessOddsUpdate(c, e, m, b, o)
    \/ \E c \in Tasks, ok \in BOOLEAN : StoreOddsHSet(c, ok)
    \/ \E c \in Tasks, ok \in BOOLEAN : StoreOddsExpire(c, ok)
    \/ \E c \in Tasks, ok \in BOOLEAN : CheckArbitrageLua(c, ok, FALSE)
    \/ \E c \in Tasks : CheckArbitragePython(c, TRUE, FALSE)
    \/ Ready /\ \E c \in Tasks : Return(c)
    \/ Ready /\ \E d \in StoreTickSteps : TickStore(d)
    \/ Ready /\ Quiescent /\ \E e \in SerialEvents, m \in Markets, ok \in BOOLEAN :
          GetCurrentOdds(e, m, ok)
    \/ ReplyTaken

SpecTTL == Init /\ [][NextTTL]_vars

\* updates one at a time on two events, Redis answering every write, with
\* get_active_events called while no update is running
NextScan ==
    \/ Ready /\ \E c \in Tasks, e \in Events, m \in Markets, b \in Books,
                     o \in StoreOddsInputs : ProcessOddsUpdate(c, e, m, b, o)
    \/ \E c \in Tasks : StoreOddsHSet(c, TRUE)
    \/ \E c \in Tasks : StoreOddsExpire(c, TRUE)
    \/ \E c \in Tasks : CheckArbitrageLua(c, TRUE, FALSE)
    \/ Ready /\ \E c \in Tasks : Return(c)
    \/ Ready /\ \E d \in StoreTickSteps : TickStore(d)
    \/ Ready /\ Quiescent /\ \E ok \in BOOLEAN : GetActiveEvents(ok)
    \/ ReplyTaken

SpecScan == Init /\ [][NextScan]_vars

\* updates one at a time on one event, with cleanup_stale_odds running
\* beside them
NextSweep ==
    \/ \E c \in Tasks, e \in SerialEvents, m \in Markets, b \in Books, o \in StoreOddsInputs :
          ProcessOddsUpdate(c, e, m, b, o)
    \/ \E c \in Tasks : StoreOddsHSet(c, TRUE)
    \/ \E c \in Tasks : StoreOddsExpire(c, TRUE)
    \/ \E c \in Tasks : CheckArbitrageLua(c, TRUE, FALSE)
    \/ \E c \in Tasks : Return(c)
    \/ \E d \in TickSteps : Tick(d)
    \/ \E a \in SweepMaxAges : CleanupStaleOdds(a)
    \/ \E ok \in BOOLEAN : SweepScan(ok)
    \/ \E k \in sweep.todo, ok \in BOOLEAN : SweepHGet(k, ok)
    \/ \E ok \in BOOLEAN : SweepDelete(ok)
    \/ SweepReturn

SpecSweep == Init /\ [][NextSweep]_vars

\* ------------------------------------------------- the monitoring loop
engineVars == <<redis, now, ticks, calls, arrived, stats, serialRedis, storeOps>>

MarkHealthyMutKeepCount(health) == [health EXCEPT !.status = "healthy"]

MarkHealthyMutTerminal(health) ==
    IF health.consecutive_failures >= FailureThreshold
    THEN health
    ELSE [status |-> "healthy", consecutive_failures |-> 0]

\* lines 241-244 of _mark_component_healthy
MarkHealthy(health) == [status |-> "healthy", consecutive_failures |-> 0]

\* lines 262-264 of _mark_component_unhealthy
MarkUnhealthy(health) ==
    [status |-> "unhealthy",
     consecutive_failures |-> health.consecutive_failures + 1]

RecoveredDueMutNotHealthy(previous_status) == previous_status # "healthy"

\* line 247: the component recovered, the "... Recovered" alert is due
RecoveredDue(previous_status) == previous_status = "unhealthy"

RecoveryCatchesExceptionMutNone == FALSE

\* lines 276-282: the recovery callback is awaited inside try / except Exception
RecoveryCatchesException == TRUE

\* line 285: the persistent-failure alert is due
AlertDue(failures, previous_status) ==
    failures >= FailureThreshold /\ previous_status # "unhealthy"

\* the loop of line 105 goes on to the next component, or the cycle ends
\* (lines 92-95) and the monitor sleeps
NextComponent(m) ==
    IF m.i < Len(Components)
    THEN [m EXCEPT !.pc = "check", !.i = @ + 1, !.excepting = FALSE]
    ELSE [m EXCEPT !.pc = "sleep", !.excepting = FALSE]

CycleStats(m, st) ==
    IF m.pc = "sleep" THEN [st EXCEPT !.total_health_checks = @ + 1] ELSE st

\* lines 284-291: after the recovery, the alert if it is due
AfterRecovery(m) ==
    IF AlertDue(m.failures, m.previous_status) /\ MonitorNotifier
    THEN [m EXCEPT !.pc = "failure_alert"]
    ELSE NextComponent(m)

\* lines 259-282: _mark_component_unhealthy(name) up to its first await
MarkComponentUnhealthy(name, m, st, pr) ==
    LET health == MarkUnhealthy(component_health[name])
        m1 == [m EXCEPT !.previous_status = component_health[name].status,
                        !.failures = health.consecutive_failures]
        m2 == IF name \in RecoveryCallbacks
              THEN [m1 EXCEPT !.pc = "recovery"]
              ELSE AfterRecovery(m1)
    IN  /\ component_health' = [component_health EXCEPT ![name] = health]
        /\ monitor' = m2
        /\ system_stats' = CycleStats(m2, [st EXCEPT !.component_failures = @ + 1])
        /\ probes' = [pr EXCEPT ![name].streak_alerts =
                          IF m2.pc = "failure_alert" THEN @ + 1 ELSE @]

\* lines 89-91: a cycle of start_monitoring begins
PerformHealthChecks ==
    /\ monitor.pc = "sleep"
    /\ monitor.cycles < MaxCycles
    /\ monitor' = [monitor EXCEPT !.pc = "check", !.i = 1, !.cycles = @ + 1]
    /\ UNCHANGED <<component_health, system_stats, probes, engineVars, interceptorVars, serviceVars>>

\* lines 105-112: the probe of the next component has answered is_healthy
CheckComponentHealth(is_healthy) ==
    LET name == Components[monitor.i]
        previous == component_health[name]
        seen == [probes EXCEPT
                    ![name].probed = @ + 1,
                    ![name].previous_status = previous.status,
                    ![name].previous_failures = previous.consecutive_failures,
                    ![name].failed_since_success = IF is_healthy THEN 0 ELSE @ + 1,
                    ![name].streak_alerts = IF is_healthy THEN 0 ELSE @,
                    ![name].recovered_alert = "none"]
    IN  /\ monitor.pc = "check"
        /\ is_healthy \in ProbeAnswers(name)
        /\ IF is_healthy
           THEN LET m == IF RecoveredDue(previous.status) /\ MonitorNotifier
                         THEN [monitor EXCEPT !.pc = "recovered_alert"]
                         ELSE NextComponent(monitor)
                IN  /\ component_health' =
                          [component_health EXCEPT ![name] = MarkHealthy(previous)]
                    /\ monitor' = m
                    /\ system_stats' = CycleStats(m, system_stats)
                    /\ probes' = [seen EXCEPT ![name].recovered_alerts =
                                      IF m.pc = "recovered_alert" THEN @ + 1 ELSE @]
           ELSE MarkComponentUnhealthy(name, monitor, system_stats, seen)
        /\ UNCHANGED <<engineVars, interceptorVars, serviceVars>>

\* an exception has left _mark_component_healthy / _mark_component_unhealthy:
\* out of the try body it is caught on line 114, which marks the component
\* unhealthy; out of that handler it leaves _perform_health_checks and is
\* caught on line 97 of start_monitoring, which sleeps until the next cycle
MarkingRaised(name) ==
    IF ~monitor.excepting
    THEN MarkComponentUnhealthy(name, [monitor EXCEPT !.excepting = TRUE],
                                system_stats, probes)
    ELSE /\ monitor' = [monitor EXCEPT !.pc = "sleep", !.excepting = FALSE]
         /\ UNCHANGED <<component_health, system_stats, probes>>

\* lines 276-286: await recovery_fn() has come back or has raised
RecoveryReturned(raised) ==
    LET m == AfterRecovery(monitor)
        st == IF raised THEN system_stats
              ELSE [system_stats EXCEPT !.recoveries_triggered = @ + 1]
    IN  /\ monitor.pc = "recovery"
        /\ IF raised /\ ~RecoveryCatchesException
           THEN MarkingRaised(Components[monitor.i])
           ELSE /\ monitor' = m
                /\ system_stats' = CycleStats(m, st)
                /\ probes' = [probes EXCEPT ![Components[monitor.i]].streak_alerts =
                                  IF m.pc = "failure_alert" THEN @ + 1 ELSE @]
                /\ UNCHANGED component_health

\* the monitor is inside the recovery callback of name
Recovering(m, name) == m.pc = "recovery" /\ Components[m.i] = name

\* a recovery callback whose steps are not followed one by one
RecoveryReturns(raised) ==
    /\ RecoveryReturned(raised)
    /\ UNCHANGED <<engineVars, interceptorVars, serviceVars>>

\* notifier.send_system_alert has come back to the monitor, which awaits
\* it on lines 250-255 ("... Recovered") and on lines 293-303 ("... Failure").
\* An exception out of the first leaves _mark_component_healthy; one out of
\* the second is caught on line 302, before alerts_sent is counted
SendSystemAlert(response) ==
    LET name == Components[monitor.i]
        raised == response = "exception" /\ ~NotifierCatchesException
        m == NextComponent(monitor)
    IN  /\ monitor.pc \in {"recovered_alert", "failure_alert"}
        /\ IF monitor.pc = "recovered_alert"
           THEN IF raised
                THEN MarkingRaised(name)
                ELSE /\ monitor' = m
                     /\ system_stats' = CycleStats(m, system_stats)
                     /\ probes' = [probes EXCEPT ![name].recovered_alert =
                                       IF response = "200" THEN "sent"
                                       ELSE "failed"]
                     /\ UNCHANGED component_health
           ELSE /\ monitor' = m
                /\ system_stats' = CycleStats(m,
                       IF raised THEN system_stats
                       ELSE [system_stats EXCEPT !.alerts_sent = @ + 1])
                /\ UNCHANGED <<component_health, probes>>
        /\ UNCHANGED <<engineVars, interceptorVars, serviceVars>>

NextHealth ==
    \/ PerformHealthChecks
    \/ \E is_healthy \in BOOLEAN : CheckComponentHealth(is_healthy)
    \/ \E raised \in BOOLEAN : RecoveryReturns(raised)
    \/ \E response \in NtfyReplies : SendSystemAlert(response)

SpecHealth == Init /\ [][NextHealth]_vars

\* ------------------------------------------------------- the interceptor
RECURSIVE Pow(_, _)
Pow(b, n) == IF n = 0 THEN 1 ELSE b * Pow(b, n - 1)

Min(a, b) == IF a <= b THEN a ELSE b

\* what `async for message in self.websocket` can do next (line 173): yield
\* a frame, end (the connection was closed normally), or raise
Frames == {"odds_update", "heartbeat", "non_json"}
ReceiveOutcomes ==
    Frames \cup {"closed", "ConnectionClosed", "WebSocketException", "Exception"}

\* datetime.now().timestamp() - last_message_time, d seconds later; the
\* probe only compares it with websocket_timeout, so it is kept up to
\* websocket_timeout + 1
Later(time_since_msg, d) ==
    IF time_since_msg = NoMessage THEN NoMessage
    ELSE Min(time_since_msg + d, WebsocketTimeout + 1)

\* the interceptor d seconds later
Elapsed(ic, d) ==
    [ic EXCEPT !.time_since_msg = Later(@, d),
               !.time_since_frame = Later(@, d),
               !.time_since_connect = Later(@, d)]

GiveUpMutAtMax(attempts) == attempts >= MaxReconnectAttempts

\* line 404: the reconnection attempts are used up
GiveUp(attempts) == attempts > MaxReconnectAttempts

BackoffDelayMutLinear(attempts) == Min(MaxDelay, ReconnectBackoffBase * attempts)

\* line 410
BackoffDelay(attempts) == Min(MaxDelay, Pow(ReconnectBackoffBase, attempts))

ConnectedMutKeepAttempts(ic) ==
    [ic EXCEPT !.websocket = "open", !.is_connected = TRUE,
               !.time_since_msg = 0, !.connects = @ + 1,
               !.time_since_connect = 0]

\* lines 107-116 of connect: websockets.connect has returned a connection
Connected(ic) ==
    [ic EXCEPT !.websocket = "open", !.is_connected = TRUE,
               !.reconnect_attempts = 0, !.time_since_msg = 0,
               !.connects = @ + 1, !.time_since_connect = 0]

\* the top of the loop of listen (lines 157-165), up to its next await: the
\* loop ends, or connect() is awaited, or the heartbeat task is created
\* (line 170) and the next frame is awaited
LoopTop(ic, l, hb) ==
    IF ~ic.is_running
    THEN [interceptor |-> ic, listen |-> [l EXCEPT !.pc = "returned", !.route = "none"],
          heartbeat |-> hb]
    ELSE IF ~ic.is_connected
    THEN [interceptor |-> ic, listen |-> [l EXCEPT !.pc = "connect", !.route = "none"],
          heartbeat |-> hb]
    ELSE [interceptor |-> ic, listen |-> [l EXCEPT !.pc = "receive", !.route = "none"],
          heartbeat |-> [hb EXCEPT !.tasks = @ + 1]]

\* _handle_reconnection (lines 399-413) up to its sleep, called after the
\* failure that l.failures counts; when it gives up, the loop ends at its
\* next test of is_running, which follows every call
HandleReconnection(ic, l, hb) ==
    LET attempts == ic.reconnect_attempts + 1
        failed == [l EXCEPT !.failures = @ + 1, !.route = "none"]
    IN  IF GiveUp(attempts)
        THEN [interceptor |-> [ic EXCEPT !.reconnect_attempts = attempts,
                                         !.is_running = FALSE],
              listen |-> [failed EXCEPT !.pc = "returned"],
              heartbeat |-> hb]
        ELSE [interceptor |-> [ic EXCEPT !.reconnect_attempts = attempts],
              listen |-> [failed EXCEPT !.pc = "backoff",
                                        !.delay = BackoffDelay(attempts),
                                        !.waits = @ + 1],
              heartbeat |-> hb]

Becomes(r) ==
    /\ interceptor' = r.interceptor
    /\ listen' = r.listen
    /\ heartbeat' = r.heartbeat

\* ------------------------------------------------------- frame handling
\* a frame: text that json.loads rejects, or a JSON value that is an object
\* or not; of an object, the keys it has, and under them the values of
\* 'type' (a string or not), of 'eventId' and of 'odds' (a dict or not, with
\* its 'home' and 'away' values)
PayloadPrices == {"2", "0", "-1", "n/a"}
PayloadTypes == {"PONG", "subscribed", "update"}
PayloadKeys == {"odds", "type", "eventId"}

Messages ==
    {NoFrame, [NoFrame EXCEPT !.json = TRUE]}
    \cup {[json |-> TRUE, object |-> TRUE, keys |-> k,
           type |-> IF "type" \in k /\ s THEN t ELSE "",
           type_is_str |-> "type" \in k => s,
           eventId |-> IF "eventId" \in k THEN e ELSE "",
           odds_is_dict |-> "odds" \in k /\ d,
           home |-> IF "odds" \in k /\ d THEN h ELSE "0",
           away |-> IF "odds" \in k /\ d THEN a ELSE "0"] :
          k \in SUBSET PayloadKeys, t \in PayloadTypes, s \in BOOLEAN,
          e \in {"", "e1"}, d \in BOOLEAN, h \in PayloadPrices,
          a \in {"0", "2"}}

\* float(v) raises ValueError
FloatRaises(v) == v = "n/a"

\* float(v)
Float(v) ==
    CASE v = "2" -> 2
      [] v = "0" -> 0
      [] v = "-1" -> 0 - 1

\* str.lower() on the values of PayloadTypes
TypeLower(t) ==
    CASE t = "PONG" -> "pong"
      [] OTHER -> t

\* `'odds' in data` raises TypeError when data is not a container, and
\* data['type'].lower() raises AttributeError when the value is no string
IdentifyRaises(data) ==
    \/ ~data.object
    \/ "odds" \notin data.keys /\ "type" \in data.keys /\ ~data.type_is_str

\* _identify_message_type, lines 238-262
IdentifyMessageType(data) ==
    IF "odds" \in data.keys THEN "odds_update"
    ELSE IF "type" \in data.keys
    THEN LET msg_type == TypeLower(data.type)
         IN  IF msg_type \in {"pong", "heartbeat"} THEN "heartbeat"
             ELSE IF msg_type \in {"subscribed", "confirm"}
                  THEN "subscription_confirm"
             ELSE "unknown"
    ELSE "unknown"

\* _extract_odds_from_payload raises (lines 326-327)
ExtractRaises(data) ==
    data.odds_is_dict /\ (FloatRaises(data.home) \/ FloatRaises(data.away))

\* _extract_odds_from_payload, lines 318-353, for the 'odds' format: the
\* prices above zero ('draw' is absent from these frames, so 0)
ExtractOddsFromPayload(data) ==
    IF ~data.odds_is_dict THEN [k \in {} |-> 0]
    ELSE LET odds == [home |-> Float(data.home), away |-> Float(data.away),
                      draw |-> 0]
         IN  Restrict(odds, {k \in DOMAIN odds : odds[k] > 0})

IncompleteMutIgnoreEvent(odds, event_id) == DOMAIN odds = {}

\* line 283: `if not odds or not event_id`
Incomplete(odds, event_id) == DOMAIN odds = {} \/ event_id = ""

\* _handle_message and _handle_odds_update (lines 211-236, 271-303): where
\* the frame goes
Route(message) ==
    IF ~message.json THEN "non_json"
    ELSE IF IdentifyRaises(message) THEN "error"
    ELSE LET msg_type == IdentifyMessageType(message)
         IN  IF msg_type # "odds_update" THEN msg_type
             ELSE IF ExtractRaises(message) THEN "error"
             ELSE IF Incomplete(ExtractOddsFromPayload(message), message.eventId)
                  THEN "incomplete"
             ELSE "process_odds_update"

\* the frames of Frames
Message(outcome) ==
    CASE outcome = "odds_update" ->
            [NoFrame EXCEPT !.json = TRUE, !.object = TRUE,
                            !.keys = {"odds", "eventId"}, !.eventId = "e1",
                            !.odds_is_dict = TRUE, !.home = "2", !.away = "2"]
      [] outcome = "heartbeat" ->
            [NoFrame EXCEPT !.json = TRUE, !.object = TRUE, !.keys = {"type"},
                            !.type = "PONG"]
      [] outcome = "non_json" -> NoFrame

MessageErrorCaughtMutNone == FALSE

\* lines 235-236 and 302-303: `except Exception` around the handling of a
\* frame; without it the exception reaches the handler of listen (line 198)
MessageErrorCaught == TRUE

\* lines 173-174 and 211-303: the frame is stamped and routed; the engine
\* is awaited for a complete odds update, everything else is discarded
HandleMessage(message) ==
    LET stamped == [interceptor EXCEPT !.time_since_msg = 0,
                                       !.time_since_frame = 0]
    IN  IF Route(message) = "error" /\ ~MessageErrorCaught
        THEN Becomes([HandleReconnection(stamped, listen, heartbeat)
                         EXCEPT !.listen.route = "error"])
        ELSE /\ interceptor' = stamped
             /\ listen' = [listen EXCEPT
                              !.pc = IF Route(message) = "process_odds_update"
                                     THEN "handle" ELSE @,
                              !.frame = IF Route(message) = "process_odds_update"
                                        THEN message ELSE NoFrame,
                              !.route = Route(message)]
             /\ UNCHANGED heartbeat

\* main.py line 204: the listen task starts (lines 157-165)
Listen ==
    /\ listen.pc = "idle"
    /\ Becomes(LoopTop([interceptor EXCEPT !.is_running = TRUE], listen, heartbeat))
    /\ UNCHANGED <<closer, recover, engineVars, healthVars, serviceVars>>

\* lines 107-125 and 163-170: websockets.connect, awaited by listen, has
\* returned (ok) or raised
ConnectReturns(ok) ==
    /\ listen.pc = "connect"
    /\ ok => interceptor.connects < MaxConnects
    /\ IF ok
       THEN /\ interceptor' = Connected(interceptor)
            /\ listen' = [listen EXCEPT !.pc = "receive", !.failures = 0,
                                        !.waits = 0]
            /\ heartbeat' = [heartbeat EXCEPT !.tasks = @ + 1]
       ELSE Becomes(HandleReconnection(interceptor, listen, heartbeat))
    /\ UNCHANGED <<closer, recover, engineVars, healthVars, serviceVars>>

\* line 413: the backoff sleep is over
BackoffEnds ==
    /\ listen.pc = "backoff"
    /\ Becomes(LoopTop(Elapsed(interceptor, listen.delay), listen, heartbeat))
    /\ UNCHANGED <<closer, recover, engineVars, healthVars, serviceVars>>

\* lines 173-202: what the receive loop does with the next outcome
Receive(outcome) ==
    /\ listen.pc = "receive"
    /\ interceptor.websocket # "open" => outcome \in {"closed", "ConnectionClosed"}
    /\ CASE outcome \in Frames ->
              HandleMessage(Message(outcome))
         [] outcome = "closed" ->
              \* lines 176-181: no backoff, the loop goes back to its top
              Becomes(LoopTop([interceptor EXCEPT !.is_connected = FALSE,
                                                  !.websocket = "closed"],
                              listen,
                              [heartbeat EXCEPT !.tasks = @ - 1]))
         [] outcome = "ConnectionClosed" ->
              \* lines 183-189
              Becomes(HandleReconnection(
                          [interceptor EXCEPT !.is_connected = FALSE,
                                              !.websocket = "closed"],
                          listen, heartbeat))
         [] outcome = "WebSocketException" ->
              \* lines 191-196
              Becomes(HandleReconnection(
                          [interceptor EXCEPT !.is_connected = FALSE],
                          listen, heartbeat))
         [] outcome = "Exception" ->
              \* lines 198-202: is_connected is left as it is
              Becomes(HandleReconnection(interceptor, listen, heartbeat))
    /\ UNCHANGED <<closer, recover, engineVars, healthVars, serviceVars>>

\* lines 287-294: engine.process_odds_update has returned or raised
HandleOddsUpdate ==
    /\ listen.pc = "handle"
    /\ listen' = [listen EXCEPT !.pc = "receive", !.frame = NoFrame]
    /\ UNCHANGED <<interceptor, heartbeat, closer, recover, engineVars, healthVars, serviceVars>>

\* lines 372-390: a heartbeat task wakes from its sleep; it pings if the
\* connection is open (ok: the ping was sent), and ends if is_connected is
\* false
HeartbeatLoop(ok) ==
    /\ heartbeat.tasks > 0
    /\ heartbeat' =
          [tasks |-> IF interceptor.is_connected THEN heartbeat.tasks
                     ELSE heartbeat.tasks - 1,
           last_ping |-> IF interceptor.websocket # "open" THEN "none"
                         ELSE IF ok THEN "sent" ELSE "failed"]
    /\ UNCHANGED <<interceptor, listen, closer, recover, engineVars, healthVars, serviceVars>>

\* lines 453-459: close() is called; it returns at once unless there is an
\* open connection to close
Close ==
    /\ closer.pc = "idle"
    /\ listen.pc # "idle"
    /\ interceptor' = [interceptor EXCEPT !.is_running = FALSE]
    /\ closer' = [pc |-> IF interceptor.websocket = "open" THEN "closing"
                         ELSE "returned"]
    /\ UNCHANGED <<listen, heartbeat, recover, engineVars, healthVars, serviceVars>>

\* line 458: websocket.close() has returned
CloseReturns ==
    /\ closer.pc = "closing"
    /\ interceptor' = [interceptor EXCEPT !.websocket = "closed"]
    /\ closer' = [pc |-> "returned"]
    /\ UNCHANGED <<listen, heartbeat, recover, engineVars, healthVars, serviceVars>>

NextListen ==
    \/ Listen
    \/ \E ok \in BOOLEAN : ConnectReturns(ok)
    \/ BackoffEnds
    \/ \E outcome \in ReceiveOutcomes : Receive(outcome)
    \/ HandleOddsUpdate
    \/ \E ok \in BOOLEAN : HeartbeatLoop(ok)

SpecListen == Init /\ [][NextListen]_vars

NextInterceptor ==
    \/ NextListen
    \/ Close
    \/ CloseReturns

SpecInterceptor == Init /\ [][NextInterceptor]_vars

\* ------------------------------------- the monitor over the interceptor
ElapseSteps == {WebsocketTimeout}

\* what the connection does under the monitor: a frame arrives, or the
\* connection is lost
SupervisedOutcomes == {"heartbeat", "ConnectionClosed"}
RecoverySleep == 5

CheckInterceptorHealthMutAtTimeout(ic) ==
    IF ic.time_since_msg # NoMessage /\ ic.time_since_msg >= WebsocketTimeout
    THEN FALSE
    ELSE ic.is_connected

\* _check_interceptor_health, lines 178-202 of health_monitor.py
CheckInterceptorHealth(ic) ==
    IF ic.time_since_msg # NoMessage /\ ic.time_since_msg > WebsocketTimeout
    THEN FALSE
    ELSE ic.is_connected

\* the answer of the probe of the component the monitor is at; in this
\* specification the proxy manager answers healthy
ProbeOf(name) ==
    IF name = "interceptor" THEN CheckInterceptorHealth(interceptor) ELSE TRUE

\* the monitor is inside _recover_interceptor
RecoveringInterceptor == Recovering(monitor, "interceptor")

\* main.py lines 321-322: _recover_interceptor calls interceptor.close()
RecoverClose ==
    /\ RecoveringInterceptor
    /\ recover.pc = "idle"
    /\ interceptor' = [interceptor EXCEPT !.is_running = FALSE]
    /\ recover' = [pc |-> IF interceptor.websocket = "open" THEN "closing"
                          ELSE "sleep",
                   succeeded |-> FALSE]
    /\ UNCHANGED <<listen, heartbeat, closer, engineVars, healthVars, serviceVars>>

\* interceptor.py line 458, awaited from main.py line 322
RecoverCloseReturns ==
    /\ recover.pc = "closing"
    /\ interceptor' = [interceptor EXCEPT !.websocket = "closed"]
    /\ recover' = [recover EXCEPT !.pc = "sleep"]
    /\ UNCHANGED <<listen, heartbeat, closer, engineVars, healthVars, serviceVars>>

\* main.py lines 325-328: the sleep is over, connect() is awaited
RecoverSleep ==
    /\ recover.pc = "sleep"
    /\ interceptor' = Elapsed(interceptor, RecoverySleep)
    /\ recover' = [recover EXCEPT !.pc = "connect"]
    /\ UNCHANGED <<listen, heartbeat, closer, engineVars, healthVars, serviceVars>>

\* main.py lines 328-336: connect() has returned True (ok) or False, and
\* _recover_interceptor returns to _mark_component_unhealthy
RecoverConnect(ok) ==
    /\ recover.pc = "connect"
    /\ ok => interceptor.connects < MaxConnects
    /\ interceptor' = IF ok THEN Connected(interceptor) ELSE interceptor
    /\ recover' = [pc |-> "idle", succeeded |-> ok]
    /\ RecoveryReturned(FALSE)
    /\ UNCHANGED <<listen, heartbeat, closer, engineVars, serviceVars>>

\* health_monitor.py line 95: time passes while the monitor sleeps
Elapse(d) ==
    /\ monitor.pc = "sleep"
    /\ interceptor.time_since_msg \notin {NoMessage, WebsocketTimeout + 1}
    /\ interceptor' = Elapsed(interceptor, d)
    /\ UNCHANGED <<listen, heartbeat, closer, recover, engineVars, healthVars, serviceVars>>

NextSupervise ==
    \/ Listen
    \/ \E ok \in BOOLEAN : ConnectReturns(ok)
    \/ BackoffEnds
    \/ \E outcome \in SupervisedOutcomes : Receive(outcome)
    \/ monitor.cycles < MaxSupervised /\ PerformHealthChecks
    \/ monitor.pc = "check" /\ CheckComponentHealth(ProbeOf(Components[monitor.i]))
    \/ \E response \in NtfyReplies : SendSystemAlert(response)
    \/ RecoverClose
    \/ RecoverCloseReturns
    \/ RecoverSleep
    \/ \E ok \in BOOLEAN : RecoverConnect(ok)
    \/ \E d \in ElapseSteps : Elapse(d)

SpecSupervise == Init /\ [][NextSupervise]_vars

\* ---------------------------------------------------- the frames received
\* lines 173-174: the connection yields a frame
ReceiveFrame(message) ==
    /\ listen.pc = "receive"
    /\ interceptor.websocket = "open"
    /\ HandleMessage(message)
    /\ UNCHANGED <<closer, recover, engineVars, healthVars, serviceVars>>

NextFrames ==
    \/ Listen
    \/ \E ok \in BOOLEAN : ConnectReturns(ok)
    \/ BackoffEnds
    \/ \E message \in Messages : ReceiveFrame(message)
    \/ \E outcome \in {"closed", "ConnectionClosed"} : Receive(outcome)
    \/ HandleOddsUpdate

SpecFrames == Init /\ [][NextFrames]_vars

\* ------------------------------------------------- the session refresh
\* scout.py line 51 (session_duration_min, default 25) and main.py line 254
SessionDuration == 1500
RefreshInterval == 300

\* what authenticate() can come to: it returns False; or it returns True
\* with cookies extracted, with an empty cookie jar extracted, or with the
\* old cookies because _extract_session_data failed and only logged
\* (lines 286-320)
AuthenticateOutcomes == {"failed", "cookies", "empty_cookies", "extraction_failed"}

\* is_session_valid, scout.py lines 379-388; last_auth_time is set from the
\* first authentication on
IsSessionValid(sc) ==
    IF sc.cookies # "set" THEN FALSE
    ELSE sc.since_auth < SessionDuration

\* main.py line 260
HandOverDue(refreshed, sc) == refreshed /\ ~IsSessionValid(sc)

\* main.py lines 260-264, with refreshed the answer of
\* refresh_session_if_needed: set_session_data(get_session_data()) or
\* nothing, then the next sleep
AfterRefresh(refreshed, sc, reauthenticated) ==
    /\ acheron' = [acheron EXCEPT !.refresh = "sleep",
                                  !.reauthenticated = reauthenticated]
    /\ interceptor' = IF HandOverDue(refreshed, sc)
                      THEN [interceptor EXCEPT !.session_data = sc.session]
                      ELSE interceptor

\* main.py lines 254-258 and scout.py lines 403-409: the sleep is over; a
\* valid session is left alone, an expired one starts authenticate()
SessionRefreshLoop ==
    LET aged == [scout EXCEPT !.since_auth =
                     Min(@ + RefreshInterval, SessionDuration)]
    IN  /\ acheron.refresh = "sleep"
        /\ scout' = aged
        /\ IF IsSessionValid(aged)
           THEN AfterRefresh(TRUE, aged, FALSE)
           ELSE /\ acheron' = [acheron EXCEPT !.refresh = "authenticate",
                                              !.reauthenticated = FALSE]
                /\ UNCHANGED interceptor
        /\ UNCHANGED <<listen, heartbeat, closer, recover, notifier, proxy_manager, engineVars, healthVars>>

\* scout.py lines 109-146: authenticate() has returned
Authenticate(outcome) ==
    LET sc == IF outcome = "failed" THEN scout
              ELSE [cookies |-> CASE outcome = "cookies" -> "set"
                                  [] outcome = "empty_cookies" -> "empty"
                                  [] outcome = "extraction_failed" -> scout.cookies,
                    since_auth |-> 0, session |-> scout.session + 1]
    IN  /\ acheron.refresh = "authenticate"
        /\ outcome # "failed" => scout.session <= MaxRefreshes
        /\ scout' = sc
        /\ AfterRefresh(outcome # "failed", sc, outcome # "failed")
        /\ UNCHANGED <<listen, heartbeat, closer, recover, notifier, proxy_manager, engineVars, healthVars>>

\* the refresh loop next to the listen loop, which connects with the
\* session data the interceptor holds (interceptor.py lines 127-146)
NextRefresh ==
    \/ SessionRefreshLoop
    \/ \E outcome \in AuthenticateOutcomes : Authenticate(outcome)
    \/ Listen
    \/ \E ok \in BOOLEAN : ConnectReturns(ok)
    \/ BackoffEnds
    \/ \E outcome \in SupervisedOutcomes : Receive(outcome)

SpecRefresh == Init /\ [][NextRefresh]_vars

\* ------------------------------------------------- the alert cooldown
\* seconds the clock can advance between two steps of the notifier
AlertTickSteps == {1, Cooldown}

\* an age d seconds later; ages are compared with the cooldown only, so
\* they are kept up to it
Older(age, d) == IF age = NoAlert THEN NoAlert ELSE Min(age + d, Cooldown)

\* _is_cooldown_active, lines 158-164, on the time since last_alert_time
IsCooldownActive(n, event_key) ==
    IF n.since_alert[event_key] = NoAlert THEN FALSE
    ELSE n.since_alert[event_key] < Cooldown

\* _update_cooldown, lines 166-168
UpdateCooldown(n, event_key) ==
    [n EXCEPT !.since_alert[event_key] = 0]

\* send_arbitrage_alert up to its await (lines 58-84), for an alert above the
\* profit threshold: it answers False under an active cooldown, or starts
\* the POST
SendAlert(c, event_key) ==
    /\ notifier.alerts[c].pc = "idle"
    /\ notifier' =
          IF IsCooldownActive(notifier, event_key)
          THEN [notifier EXCEPT !.alerts[c] =
                    [pc |-> "idle", event_key |-> event_key,
                     outcome |-> "cooldown"]]
          ELSE [notifier EXCEPT !.alerts[c] =
                    [pc |-> "sending", event_key |-> event_key,
                     outcome |-> "none"]]
    /\ UNCHANGED <<acheron, scout, proxy_manager, engineVars, healthVars, interceptorVars>>

\* lines 78-92: _send_ntfy has answered; the cooldown starts on a success
AlertSent(c, response) ==
    LET call == notifier.alerts[c]
        success == response = "200"
        done == [notifier EXCEPT
                    !.alerts[c].pc = "idle",
                    !.alerts[c].outcome = IF success THEN "sent" ELSE "failed",
                    !.since_sent[call.event_key] = IF success THEN 0 ELSE @]
    IN  /\ call.pc = "sending"
        /\ notifier' = IF success THEN UpdateCooldown(done, call.event_key)
                       ELSE done
        /\ UNCHANGED <<acheron, scout, proxy_manager, engineVars, healthVars, interceptorVars>>

\* time passes
AlertTick(d) ==
    /\ notifier' = [notifier EXCEPT
                       !.since_alert = [e \in Events |-> Older(@[e], d)],
                       !.since_sent = [e \in Events |-> Older(@[e], d)]]
    /\ notifier' # notifier
    /\ UNCHANGED <<acheron, scout, proxy_manager, engineVars, healthVars, interceptorVars>>

NextNotify ==
    \/ \E c \in Tasks, event_key \in Events : SendAlert(c, event_key)
    \/ \E c \in Tasks, response \in NtfyReplies : AlertSent(c, response)
    \/ \E d \in AlertTickSteps : AlertTick(d)

SpecNotify == Init /\ [][NextNotify]_vars

\* ------------------------------------------------- the proxy manager
Proxies == {"p1", "p2"}
Purposes == {"authentication", "websocket"}

\* the pools initialize() can load (lines 47-123): up to MaxPool proxies
\* of the provider or of custom_proxy_list, which may name a proxy twice
Pools == UNION {[1..n -> Proxies] : n \in 0..MaxPool}

\* list.remove(x): the list without its first x
RECURSIVE Remove(_, _)
Remove(list, x) ==
    IF list = <<>> THEN <<>>
    ELSE IF Head(list) = x THEN Tail(list)
    ELSE <<Head(list)>> \o Remove(Tail(list), x)

ResetIndexMutNever(index, pool) == index

\* lines 180-181
ResetIndex(index, pool) ==
    IF index >= Len(pool) /\ pool # <<>> THEN 0 ELSE index

\* _rotate_proxy, lines 157-164
RotateProxy(index, pool) ==
    IF Len(pool) <= 1 THEN index ELSE (index + 1) % Len(pool)

\* __init__ and initialize (lines 23-63): the configuration is read and the
\* pool is loaded
Initialize(pool, use_proxy_for, rotation_enabled) ==
    /\ ~proxy_manager.initialized
    /\ proxy_manager' = [proxy_manager EXCEPT
                            !.initialized = TRUE, !.proxy_pool = pool,
                            !.use_proxy_for = use_proxy_for,
                            !.rotation_enabled = rotation_enabled]
    /\ UNCHANGED <<acheron, scout, notifier, engineVars, healthVars, interceptorVars>>

\* get_proxy, lines 125-155; proxy_pool[current_proxy_index] raises
\* IndexError outside the pool (Python counts from 0, a sequence from 1)
GetProxy(purpose) ==
    LET pm == proxy_manager
        call == [purpose |-> purpose, configured |-> purpose \in pm.use_proxy_for,
                 pool_size |-> Len(pm.proxy_pool), proxy |-> "None"]
    IN  /\ pm.initialized
        /\ proxy_manager' =
              IF purpose \notin pm.use_proxy_for \/ pm.proxy_pool = <<>>
              THEN [pm EXCEPT !.returned = call]
              ELSE IF pm.current_proxy_index + 1 \notin DOMAIN pm.proxy_pool
              THEN [pm EXCEPT !.returned = [call EXCEPT !.proxy = "IndexError"]]
              ELSE [pm EXCEPT
                       !.returned = [call EXCEPT !.proxy =
                           pm.proxy_pool[pm.current_proxy_index + 1]],
                       !.current_proxy_index =
                           IF pm.rotation_enabled /\ purpose = "authentication"
                           THEN RotateProxy(@, pm.proxy_pool) ELSE @]
        /\ UNCHANGED <<acheron, scout, notifier, engineVars, healthVars, interceptorVars>>

\* mark_proxy_failed, lines 166-184
MarkProxyFailed(proxy_url) ==
    LET pm == proxy_manager
        pool == Remove(pm.proxy_pool, proxy_url)
    IN  /\ pm.initialized
        /\ proxy_manager' =
              IF \E i \in DOMAIN pm.proxy_pool : pm.proxy_pool[i] = proxy_url
              THEN [pm EXCEPT !.proxy_pool = pool,
                              !.current_proxy_index = ResetIndex(@, pool)]
              ELSE pm
        /\ UNCHANGED <<acheron, scout, notifier, engineVars, healthVars, interceptorVars>>

NextProxy ==
    \/ \E pool \in Pools, use_proxy_for \in SUBSET Purposes,
          rotation_enabled \in BOOLEAN :
          Initialize(pool, use_proxy_for, rotation_enabled)
    \/ \E purpose \in Purposes : GetProxy(purpose)
    \/ \E proxy_url \in Proxies : MarkProxyFailed(proxy_url)

SpecProxy == Init /\ [][NextProxy]_vars

\* ------------------------------------------------- the orchestrator stops
\* what the connection does while the orchestrator stops
ShutdownOutcomes == {"heartbeat", "ConnectionClosed", "WebSocketException"}

CancelMutNone(l) == l

\* Task.cancel() on the task that runs listen (main.py line 233): a task
\* that has not returned is suspended at an await, where CancelledError is
\* raised; no handler of listen or of the coroutines it awaits catches it
\* (they catch Exception), so the task ends there
Cancel(l) ==
    IF l.pc = "returned" THEN l
    ELSE [l EXCEPT !.pc = "cancelled", !.cancelled_at = l.pc]

\* main.py lines 221-228: the startup notification has returned (it never
\* raises, notifier.py lines 216-221) and start() waits for shutdown_event
StartWaits ==
    /\ acheron.start = "notify"
    /\ listen.pc # "idle"
    /\ acheron' = [acheron EXCEPT !.start = "wait"]
    /\ UNCHANGED <<scout, notifier, proxy_manager, engineVars, healthVars, interceptorVars>>

\* main.py lines 357-366: shutdown() sets the event and calls
\* interceptor.close(), which runs up to its await (interceptor.py
\* lines 455-458)
Shutdown ==
    /\ ~acheron.shutdown_event
    /\ closer.pc = "idle"
    /\ listen.pc # "idle"
    /\ acheron' = [acheron EXCEPT !.shutdown_event = TRUE]
    /\ interceptor' = [interceptor EXCEPT !.is_running = FALSE]
    /\ closer' = [pc |-> IF interceptor.websocket = "open" THEN "closing"
                         ELSE "returned"]
    /\ UNCHANGED <<listen, heartbeat, recover, scout, notifier, proxy_manager, engineVars, healthVars>>

\* main.py lines 228-235: shutdown_event.wait() returns and start() cancels
\* its tasks
StartCancels ==
    /\ acheron.start = "wait"
    /\ acheron.shutdown_event
    /\ acheron' = [acheron EXCEPT !.start = "cancelled"]
    /\ listen' = Cancel(listen)
    /\ UNCHANGED <<interceptor, heartbeat, closer, recover, scout, notifier, proxy_manager, engineVars, healthVars>>

NextShutdown ==
    \/ Listen
    \/ \E ok \in BOOLEAN : ConnectReturns(ok)
    \/ BackoffEnds
    \/ \E outcome \in ShutdownOutcomes : Receive(outcome)
    \/ StartWaits
    \/ Shutdown
    \/ CloseReturns
    \/ StartCancels

\* start() runs when the event loop gives it the turn: its notification
\* returns within the client's timeout, and the set event wakes its wait
SpecShutdown ==
    /\ Init
    /\ [][NextShutdown]_vars
    /\ WF_vars(StartWaits)
    /\ WF_vars(StartCancels)

\* ------------------------------------------------------------ properties
Active == {c \in Tasks : calls[c].pc # "idle"}

Finished == {c \in Tasks : calls[c].pc = "done"}

IsReference(call) == Lower(call.book) = "pinnacle"

Opportunities == {calls[c].result : c \in {d \in Finished : calls[d].result.found}}

SerialOpportunities ==
    {calls[c].serialResult : c \in {d \in Active : calls[d].serialResult.found}}

\* an update as the data model admits it: at least home and away, all above 1.0
ValidPrices(o) ==
    /\ {"home", "away"} \subseteq DOMAIN o
    /\ \A k \in DOMAIN o \cap Outcomes : o[k] > 100 \/ (k = "draw" /\ o[k] = 0)

\* C1: once every concurrent call has returned, the keyspace and the set of
\* returned opportunities are those of the same calls run one after another
\* in arrival order.
C1_SerialEquivalence ==
    (/\ Active # {}
     /\ Active = Finished
     /\ \A c \in Active : ValidPrices(calls[c].odds)) =>
        /\ redis = serialRedis
        /\ Opportunities = SerialOpportunities

\* C2: no other call writes to the keys of an (event, market) between a
\* call's snapshot write and its check, and the snapshot a check evaluates
\* and writes back is the one its own call stored.
C2_NoWriteBetweenStoreAndCheck ==
    (\A c \in Active : ValidPrices(calls[c].odds)) =>
        \A c \in Active :
            calls[c].checked => ~calls[c].interleaved /\ ~calls[c].superseded

\* some cross-source pairing of the reference update with the counterparty
\* snapshot has sum of 1/price below 1.0
CrossPairingBelowOne(ref, soft) ==
    \/ ImpliedProbBelowOne(Get(ref, "home", 0), Get(soft, "away", 0))
    \/ ImpliedProbBelowOne(Get(ref, "away", 0), Get(soft, "home", 0))

WithinStalenessBound(call) ==
    call.checkedAt - Get(call.seenSoft, "timestamp", 0) <= StalenessBound

ProfitPositive(r) == ~r.profit_pct.inf /\ r.profit_pct.hundredths > 0

\* a reference call that stored its snapshot and completed its check
CheckedReference(c) ==
    /\ calls[c].pc = "done"
    /\ IsReference(calls[c])
    /\ calls[c].stored
    /\ ~calls[c].pyFailed

\* C3: on valid updates of the reference and a counterparty, a reference
\* update returns an opportunity with positive profit exactly when some
\* cross-source pairing is below 1.0 and the counterparty snapshot is within
\* the staleness bound, and None otherwise.
C3_OpportunityIffCrossPairing ==
    \A c \in Tasks :
        (/\ CheckedReference(c)
         /\ ValidPrices(calls[c].odds)
         /\ (DOMAIN calls[c].seenSoft # {} => ValidPrices(calls[c].seenSoft)))
        => LET call == calls[c]
               due == /\ DOMAIN call.seenSoft # {}
                      /\ CrossPairingBelowOne(call.odds, call.seenSoft)
                      /\ WithinStalenessBound(call)
           IN  IF due
               THEN call.result.found /\ ProfitPositive(call.result)
               ELSE call.result = None

\* C4: no opportunity is returned from a counterparty snapshot older than
\* the staleness bound, on the script path and on the fallback path, also
\* when the prices qualify.
C4_StaleNeverProducesOpportunity ==
    \A c \in Finished :
        (/\ calls[c].result.found
         /\ ValidPrices(calls[c].odds)
         /\ ValidPrices(calls[c].seenSoft)) => WithinStalenessBound(calls[c])

\* C5: every returned opportunity has implied probability below 1.0 over
\* the two prices it was computed from, and profit above 0.
C5_OpportunityProfitPositive ==
    \A c \in Finished :
        calls[c].result.found =>
            /\ ImpliedProbBelowOne(Get(calls[c].odds, "home", 0),
                                   Get(calls[c].seenSoft, "away", 0))
            /\ ProfitPositive(calls[c].result)

\* the stored snapshot of a source for an (event, market)
Snapshot(db, event_id, market_type, source) ==
    HGETALL(db, StoreKey(event_id, market_type, source))

\* C6: a snapshot write for one source leaves the stored snapshot of every
\* other source of the same (event, market) as it was: the snapshot that a
\* returned call of another book stored is still there after the write.
C6_OtherSourcesUnchanged ==
    [][\A c \in Tasks, d \in Tasks :
          (/\ calls[c].pc = "hset"
           /\ calls'[c].pc = "expire"
           /\ calls[d].pc = "done"
           /\ calls[d].stored
           /\ calls[d].event_id = calls[c].event_id
           /\ calls[d].market_type = calls[c].market_type
           /\ Lower(calls[d].book) # Lower(calls[c].book)
           /\ ValidPrices(calls[c].odds)
           /\ ValidPrices(calls[d].odds)
           /\ Snapshot(redis, calls[d].event_id, calls[d].market_type, calls[d].book)
                 = StoreData(calls[d].odds, calls[d].market_type, calls[d].timestamp))
          => Snapshot(redis', calls[d].event_id, calls[d].market_type, calls[d].book)
                = Snapshot(redis, calls[d].event_id, calls[d].market_type,
                           calls[d].book)]_vars

\* C7: a check is run exactly for the reference source.  A call for another
\* book runs no check, returns None, and leaves arbs_detected and the
\* notifier alone; every reference call that stored its snapshot runs the
\* check.
C7_CheckIffReference ==
    /\ [](\A c \in Active :
            LET call == calls[c]
            IN  /\ call.checked => IsReference(call) /\ call.stored
                /\ ~IsReference(call) =>
                      /\ call.pc \in {"hset", "expire", "done"}
                      /\ ~call.checked /\ ~call.detected /\ ~call.notified
                      /\ call.result = None
                /\ (IsReference(call) /\ call.stored) =>
                      call.checked \/ call.pc = "lua")
    /\ [][\A c \in Tasks :
            (/\ calls[c].pc # "idle"
             /\ calls'[c] # calls[c]
             /\ ~IsReference(calls[c]))
            => /\ stats'.arbs_detected = stats.arbs_detected
               /\ stats'.arbs_alerted = stats.arbs_alerted
               /\ stats'.lua_executions = stats.lua_executions]_vars

\* C7 witness: a call for a counterparty book has stored its snapshot and
\* returned while the reference snapshot in the store pairs with it below 1.0
C7_Witness ==
    \E c \in Finished :
        /\ ~IsReference(calls[c])
        /\ calls[c].stored
        /\ ImpliedProbBelowOne(
              Get(HGETALL(redis, PinnacleKey(calls[c].event_id, calls[c].market_type)),
                  "home", 0),
              Get(calls[c].odds, "away", 0))

PriceFields(hash) == DOMAIN hash \cap Outcomes

\* C8: every outcome price held in the store is above 1.0.
C8_StoredPricesAboveOne ==
    \A key \in DOMAIN redis.data :
        \A f \in PriceFields(redis.data[key]) : redis.data[key][f] > 100

NoPositivePrice(o) == \A k \in DOMAIN o : o[k] <= 0

\* C9: a call whose outcome prices are empty or all non-positive writes
\* nothing to the store and returns None.
C9_RejectedUpdateNotStored ==
    [][\A c \in Tasks :
          (/\ calls[c].pc # "idle"
           /\ calls'[c] # calls[c]
           /\ calls'[c].pc # "idle"
           /\ NoPositivePrice(calls[c].odds))
          => /\ redis' = redis
             /\ calls'[c].result = None]_vars

\* C10: process_odds_update never raises; a call whose snapshot write or
\* TTL set failed returns None, and so does a call whose script execution
\* and fallback read both failed.
C10_NeverRaises ==
    \A c \in Active :
        /\ calls[c].pc # "raised"
        /\ (calls[c].pc = "done" /\ ~calls[c].stored) => calls[c].result = None
        /\ (calls[c].pc = "done" /\ calls[c].luaFailed /\ calls[c].pyFailed)
              => calls[c].result = None

\* C10 witness: a call has returned None after both the script execution and
\* the fallback read failed
C10_Witness ==
    \E c \in Finished :
        /\ calls[c].luaFailed
        /\ calls[c].pyFailed
        /\ calls[c].result = None

Returned(call) == call.pc \in {"done", "raised"}

\* C11: the engine does not wait for the notifier: a call whose
\* send_arbitrage_alert has not completed has returned all the same, and the
\* notifier is called at most once per detection.
C11_DoesNotWaitForNotifier ==
    \A c \in Active :
        /\ calls[c].alerts <= 1
        /\ calls[c].alert = "pending" => Returned(calls[c])

\* send_arbitrage_alert raised inside or answered False
AlertFailed(call) == call.alert \in {"skipped", "error", "failed", "raised"}

\* C12: a failure of send_arbitrage_alert leaves the detection result as it
\* was: the call returns the detected opportunity, and arbs_detected, counted
\* at detection, keeps the count.
C12_NotifierFailureKeepsDetection ==
    /\ [](\A c \in Active :
            (Returned(calls[c]) /\ AlertFailed(calls[c])) =>
                /\ calls[c].pc = "done"
                /\ calls[c].detected
                /\ calls[c].result.found)
    /\ [][\A c \in Tasks :
            /\ (calls[c].pc \in {"notify", "alerting"} /\ calls'[c].pc # "idle") =>
                  /\ calls'[c].result = calls[c].result
                  /\ stats'.arbs_detected = stats.arbs_detected
            /\ (calls[c].pc # "idle" /\ calls'[c].pc # "idle"
                   /\ calls'[c].detected /\ ~calls[c].detected) =>
                  stats'.arbs_detected = stats.arbs_detected + 1]_vars

\* C12 witness: a call has returned its opportunity after the notifier
\* failed to send the alert
C12_Witness ==
    \E c \in Finished :
        /\ calls[c].alert \in {"error", "failed"}
        /\ calls[c].result.found
        /\ stats.arbs_detected >= 1

\* the time of the last write of a returned call to its key: the script's
\* HSET and EXPIRE for a checked reference call, else the EXPIRE of _store_odds
WrittenAt(call) ==
    IF call.checked /\ ~call.luaFailed THEN call.checkedAt ELSE call.storedAt

\* the last write of a returned call left its snapshot in the store with the
\* TTL: the script's HSET and EXPIRE, or an EXPIRE that found the key
WrittenWithTTL(call) ==
    /\ call.stored
    /\ (call.checked /\ ~call.luaFailed) \/ call.ttlSet

\* get_current_odds was answered by Redis for the (event, market) of call
ReadOf(call) ==
    /\ reply.op = "get_current_odds"
    /\ reply.ok
    /\ reply.event_id = call.event_id
    /\ reply.market_type = call.market_type

C14_StoreTwiceSameAsOnce ==
    [][\A c \in Tasks :
          (/\ calls[c].pc = "expire"
           /\ calls'[c].pc # "idle"
           /\ calls'[c].stored
           /\ calls[c].rewrite
           /\ ValidPrices(calls[c].odds))
          => redis' = redis]_vars

\* C15: in every interleaving with process_odds_update the sweep deletes
\* only entries whose stored timestamp is older than max_age_seconds at the
\* moment of the deletion, so a snapshot refreshed during the sweep stays.
C15_SweepDeletesOnlyStale ==
    [][(sweep.pc = "delete" /\ sweep'.cleaned = sweep.cleaned + 1) =>
          LET data == HGETALL(redis, sweep.key)
          IN  "timestamp" \in DOMAIN data =>
                  now - data.timestamp > sweep.max_age_seconds]_vars

\* the event ids with a snapshot of any source in the store (expired keys
\* are not in it)
StoredEventIds(db) == {k[2] : k \in DOMAIN db.data}

\* C16: with no update in progress, get_active_events returns exactly the
\* event ids that have a non-expired snapshot of any source, each once.
C16_ScanReturnsStoredEvents ==
    (reply.op = "get_active_events" /\ reply.ok) =>
        /\ {reply.value[i] : i \in 1..Len(reply.value)} = StoredEventIds(redis)
        /\ \A i, j \in 1..Len(reply.value) :
              i # j => reply.value[i] # reply.value[j]


\* _mark_component_unhealthy(name) has run to its end for the last failed
\* probe of name: the monitor is not inside its recovery callback
Handled(name) == ~(monitor.pc = "recovery" /\ Components[monitor.i] = name)

\* C17: a streak of consecutive failed probes of a component that reaches
\* the threshold of 3 has caused exactly one persistent-failure alert (on the
\* probe that brought consecutive_failures to 3), and a shorter streak none.
C17_OneAlertPerStreak ==
    \A name \in Registered :
        (MonitorNotifier /\ Handled(name)) =>
            probes[name].streak_alerts =
                IF probes[name].failed_since_success >= FailureThreshold
                THEN 1 ELSE 0

\* C18: while the recovery callback of a component is pending, the monitor
\* can go on: probe the next component of the cycle, or start a later cycle.
C18_RecoveryDoesNotStall ==
    monitor.pc = "recovery" =>
        ENABLED (\/ PerformHealthChecks
                 \/ \E is_healthy \in BOOLEAN : CheckComponentHealth(is_healthy))

\* C19: for every registered component, consecutive_failures is 0 when the
\* status is healthy or unknown, at least 1 when it is unhealthy, and equal
\* to the number of failed probes since its last successful probe (or since
\* its registration).
C19_FailuresMatchStatus ==
    \A name \in Registered :
        LET health == component_health[name]
        IN  /\ health.status \in {"healthy", "unknown"} =>
                  health.consecutive_failures = 0
            /\ health.status = "unhealthy" => health.consecutive_failures >= 1
            /\ health.consecutive_failures = probes[name].failed_since_success

\* a streak of two failures or more was reset by a successful probe, while
\* another component is in a streak of failures
C19_Witness ==
    \E name, other \in Registered :
        /\ component_health[name].status = "healthy"
        /\ probes[name].previous_failures >= 2
        /\ component_health[other].consecutive_failures >= 2

\* the probe of name answered in this step, and it answered healthy
ProbedHealthy(name) ==
    /\ probes'[name].probed = probes[name].probed + 1
    /\ probes'[name].failed_since_success = 0

StatusChange(name) ==
    <<component_health[name].status, component_health'[name].status>>

\* C20 as claimed: a status changes only along unknown -> healthy,
\* healthy -> unhealthy and unhealthy -> healthy (never back to unknown,
\* never from unknown directly to unhealthy), and a successful probe
\* restores healthy whatever the failure count.
C20_StatusTransitions ==
    [][\A name \in Registered :
          /\ StatusChange(name)[1] # StatusChange(name)[2] =>
                StatusChange(name) \in {<<"unknown", "healthy">>,
                                        <<"healthy", "unhealthy">>,
                                        <<"unhealthy", "healthy">>}
          /\ ProbedHealthy(name) => component_health'[name].status = "healthy"
      ]_vars

\* C20 amended: a status changes only along unknown -> healthy,
\* unknown -> unhealthy (a first probe that fails), healthy -> unhealthy and
\* unhealthy -> healthy; once probed a component never returns to unknown,
\* and a successful probe restores healthy whatever the failure count.
C20_StatusTransitionsAmended ==
    [][\A name \in Registered :
          /\ StatusChange(name)[1] # StatusChange(name)[2] =>
                StatusChange(name) \in {<<"unknown", "healthy">>,
                                        <<"unknown", "unhealthy">>,
                                        <<"healthy", "unhealthy">>,
                                        <<"unhealthy", "healthy">>}
          /\ ProbedHealthy(name) => component_health'[name].status = "healthy"
      ]_vars

\* a component whose first probe failed is healthy again after a streak
\* that reached the alert threshold
C20_Witness ==
    \E name \in Registered :
        /\ component_health[name].status = "healthy"
        /\ probes[name].previous_status = "unhealthy"
        /\ probes[name].previous_failures >= FailureThreshold
        /\ probes[name].probed = probes[name].previous_failures + 1

\* C21: a "recovered" notification is emitted exactly on a successful probe
\* whose previous status was unhealthy: one per unhealthy -> healthy
\* transition, none on unknown -> healthy or healthy -> healthy, and none in
\* any other step.
C21_RecoveredAlertOnRecovery ==
    [][\A name \in Registered :
          probes'[name].recovered_alerts - probes[name].recovered_alerts =
              IF /\ MonitorNotifier
                 /\ ProbedHealthy(name)
                 /\ component_health[name].status = "unhealthy"
              THEN 1 ELSE 0
      ]_vars

\* a component has recovered and the alert was emitted, and a component that
\* went unknown -> healthy -> healthy has had none
C21_Witness ==
    \E name, other \in Registered :
        /\ probes[name].recovered_alerts = 1
        /\ component_health[name].status = "healthy"
        /\ probes[other].probed >= 2
        /\ probes[other].recovered_alerts = 0
        /\ component_health[other].status = "healthy"

\* the probe of name answered in this step, and it answered unhealthy
ProbedUnhealthy(name) ==
    /\ probes'[name].probed = probes[name].probed + 1
    /\ probes'[name].failed_since_success # 0

\* C22: every failed probe of a component that has a recovery action invokes
\* the action, once; when the action returns or raises, the component is
\* unhealthy with consecutive_failures one more than before the probe, and
\* the monitor goes on to the next component of the cycle, or ends the cycle
\* (counted in total_health_checks) and sleeps until the next one.
C22_RecoveryContained ==
    [][\A name \in RecoveryCallbacks :
          /\ ProbedUnhealthy(name) => Recovering(monitor', name)
          /\ (Recovering(monitor', name) /\ monitor' # monitor) =>
                ProbedUnhealthy(name)
          /\ (Recovering(monitor, name) /\ monitor' # monitor) =>
                /\ component_health'[name] =
                      [status |-> "unhealthy",
                       consecutive_failures |-> probes[name].previous_failures + 1]
                /\ probes'[name].probed = probes[name].probed
                /\ monitor' \in {NextComponent(monitor),
                               [monitor EXCEPT !.pc = "failure_alert"]}
                /\ system_stats'.total_health_checks =
                      system_stats.total_health_checks +
                          IF monitor'.pc = "sleep" THEN 1 ELSE 0
      ]_vars

\* the recovery action of a component has raised (no recovery is counted),
\* and the component after it was probed in the same cycle
C22_Witness ==
    \E name \in RecoveryCallbacks :
        /\ component_health[name].status = "unhealthy"
        /\ Handled(name)
        /\ system_stats.recoveries_triggered = 0
        /\ \E other \in Registered :
              /\ other # name
              /\ probes[other].probed = probes[name].probed

\* the listen loop is in a backoff wait or in a connect attempt
Retrying == listen.pc \in {"backoff", "connect"}

\* the listen loop has ended and the interceptor is not running
GivenUp == listen.pc = "returned" /\ ~interceptor.is_running

\* C23 as claimed: the interceptor enters GivenUp after exactly
\* max_reconnect_attempts consecutive failures: once that many have occurred
\* the loop performs no backoff wait and no connect attempt.
C23_GivesUpAtMax ==
    /\ listen.failures >= MaxReconnectAttempts => GivenUp
    /\ Retrying => listen.failures < MaxReconnectAttempts

\* C23 amended: the interceptor enters GivenUp on the failure that brings
\* the number of consecutive failures to max_reconnect_attempts + 1: up to
\* max_reconnect_attempts failures the loop still waits and retries, and
\* once max_reconnect_attempts + 1 have occurred it performs no backoff wait
\* and no connect attempt.
C23_GivesUpAfterMax ==
    /\ listen.failures > MaxReconnectAttempts => GivenUp
    /\ Retrying => listen.failures <= MaxReconnectAttempts
    /\ (GivenUp /\ closer.pc = "idle") =>
          listen.failures = MaxReconnectAttempts + 1

\* the loop has given up, after a last wait of the capped delay
C23_Witness ==
    /\ GivenUp
    /\ listen.failures = MaxReconnectAttempts + 1
    /\ listen.waits = MaxReconnectAttempts
    /\ listen.delay = MaxDelay

\* the delays of the first max_reconnect_attempts waits of a streak
DelaySequence == <<2, 4, 8, 16, 32, 64, 128, 256, 300, 300>>

\* C24: the k-th consecutive reconnection attempt waits
\* min(300, backoff_base^k) seconds, backoff_base being 2: the delays are
\* 2, 4, 8, ... capped at 300, and never decrease within a failure streak.
C24_BackoffSequence ==
    /\ [](listen.pc = "backoff" =>
            /\ listen.waits \in 1..Len(DelaySequence)
            /\ listen.delay = DelaySequence[listen.waits])
    /\ [][(listen'.waits = listen.waits + 1 /\ listen.waits >= 1) =>
              listen'.delay >= listen.delay]_vars

\* the ninth wait of a streak, the first one that is capped
C24_Witness ==
    /\ listen.pc = "backoff"
    /\ listen.waits = 9
    /\ listen.delay = MaxDelay
    /\ Pow(ReconnectBackoffBase, listen.waits) > MaxDelay

\* C25: the reconnect attempt counter is 0 immediately after every
\* successful connect, so that it counts the consecutive failures since the
\* last successful connect, and the first failure after a successful
\* connection waits the first backoff delay.
C25_CounterResetsOnConnect ==
    /\ [](/\ interceptor.reconnect_attempts = listen.failures
          /\ (listen.pc = "backoff" /\ listen.failures = 1) =>
                listen.delay = ReconnectBackoffBase)
    /\ [][interceptor'.connects = interceptor.connects + 1 =>
              interceptor'.reconnect_attempts = 0]_vars

\* the first failure after the second successful connect waits 2 seconds
C25_Witness ==
    /\ interceptor.connects = 2
    /\ listen.pc = "backoff"
    /\ listen.failures = 1
    /\ listen.delay = 2

\* the receive loop has left the connection in this step: an exception out
\* of `async for`, or its normal end
ConnectionEnds == listen.pc = "receive" /\ listen'.pc \notin {"receive", "handle"}

\* C26: every end of a connection (transport-level error, any other
\* exception in the receive loop, clean closure by the peer) makes
\* is_connected false and is followed by a backoff wait with the attempt
\* counter incremented, or by giving up; the loop never goes to a connect
\* attempt except at its start or from a backoff wait, and never resumes
\* receiving except from a successful connect.
C26_EveryEndBacksOff ==
    [][/\ ConnectionEnds =>
             /\ ~interceptor'.is_connected
             /\ listen'.pc \in {"backoff", "returned"}
             /\ interceptor'.reconnect_attempts =
                   interceptor.reconnect_attempts + 1
       /\ (listen'.pc = "connect" /\ listen.pc # "connect") =>
             listen.pc \in {"idle", "backoff"}
       /\ (listen'.pc = "receive" /\ listen.pc \notin {"receive", "handle"}) =>
             listen.pc = "connect"
      ]_vars

\* C27: after a heartbeat send fails, the interceptor has left Connected
\* (is_connected is false), as for a connection loss.
C27_HeartbeatFailureDisconnects ==
    [][(heartbeat'.last_ping = "failed" /\ heartbeat.last_ping # "failed") =>
          ~interceptor'.is_connected]_vars

\* a frame is handed to engine.process_odds_update in this step
Forwards == listen'.pc = "handle" /\ listen.pc # "handle"

\* C28: once close() has returned, no connection is open or is opened, and
\* no further frame is forwarded to the engine, in every interleaving of
\* close() with the listen loop.
C28_NothingAfterClose ==
    /\ [](closer.pc = "returned" => interceptor.websocket # "open")
    /\ [][closer.pc = "returned" => ~Forwards]_vars

\* the listen loop has given up and has not been started again
GaveUp == GivenUp /\ listen.failures > MaxReconnectAttempts

\* C29: once the interceptor has given up, and as long as its receive loop
\* has not been started again, every health probe of it reports unhealthy.
C29_GivenUpNeverHealthy ==
    [][GaveUp => ~ProbedHealthy("interceptor")]_vars

\* the probe of name answered in this step
Probed(name) == probes'[name].probed = probes[name].probed + 1

\* seconds is the age of something that happened within the timeout window
WithinWindow(seconds) == seconds # NoMessage /\ seconds <= WebsocketTimeout

\* C30 as claimed: the interceptor probe reports healthy if and only if the
\* interceptor is connected and a frame has been received within the
\* timeout window.
C30_HealthyIffFrameInWindow ==
    [][Probed("interceptor") =>
          (ProbedHealthy("interceptor") <=>
              /\ interceptor.is_connected
              /\ WithinWindow(interceptor.time_since_frame))]_vars

\* C30 amended: the interceptor probe reports healthy if and only if
\* is_connected is true and, within the timeout window, a frame has been
\* received or a connection has been established.
C30_HealthyIffStampInWindow ==
    [][Probed("interceptor") =>
          (ProbedHealthy("interceptor") <=>
              /\ interceptor.is_connected
              /\ \/ WithinWindow(interceptor.time_since_frame)
                 \/ WithinWindow(interceptor.time_since_connect))]_vars

\* the probe has just reported a connected interceptor unhealthy: nothing
\* has stamped last_message_time within the window
C30_Witness ==
    /\ RecoveringInterceptor
    /\ recover.pc = "idle"
    /\ interceptor.is_connected
    /\ interceptor.time_since_msg > WebsocketTimeout

\* the listen task has ended: its loop returned, or it was cancelled
Terminated == listen.pc \in {"returned", "cancelled"}

\* shutdown has been requested and the listen loop is in a backoff wait
ShutdownInBackoff == acheron.shutdown_event /\ listen.pc = "backoff"

\* C31: a shutdown requested while the listen loop is in a reconnection
\* backoff wait interrupts the wait: the loop terminates whether or not the
\* delay runs out (the end of the sleep is not assumed to come), and from
\* the wait the loop never goes to another connect attempt
C31_ShutdownInterruptsBackoff ==
    /\ [][ShutdownInBackoff => listen'.pc \in {"backoff", "returned", "cancelled"}]_vars
    /\ (ShutdownInBackoff ~> Terminated)

C31_Witness ==
    /\ acheron.shutdown_event
    /\ listen.pc = "cancelled"
    /\ listen.cancelled_at = "backoff"
    /\ listen.delay > 0


\* the frame is a JSON object that the interceptor classifies as a price
\* update
PriceUpdate(frame) == frame.json /\ frame.object /\ "odds" \in frame.keys

CarriesEventId(frame) == "eventId" \in frame.keys /\ frame.eventId # ""

PositivePrice(frame) ==
    /\ frame.odds_is_dict
    /\ \E v \in {frame.home, frame.away} : ~FloatRaises(v) /\ Float(v) > 0

\* C32: the engine is called only for a frame classified as a price update
\* that carries an event id and at least one positive price; a heartbeat,
\* confirmation, non-JSON or unclassified frame never leads to a call; a
\* call starts only when a frame is received, and the call for a frame is
\* not followed by another call for it
C32_EngineOnlyForPriceUpdates ==
    /\ [](listen.pc = "handle" =>
            /\ PriceUpdate(listen.frame)
            /\ CarriesEventId(listen.frame)
            /\ PositivePrice(listen.frame)
            /\ listen.route = "process_odds_update")
    /\ [][Forwards => listen.pc = "receive"]_vars
    /\ [][listen.pc = "handle" /\ listen' # listen => listen'.pc # "handle"]_vars

C32_Witness ==
    /\ listen.pc = "handle"
    /\ listen.frame.home = "-1"
    /\ listen.frame.away = "2"
    /\ "type" \in listen.frame.keys


\* the frame just received could not be parsed or handled
FailedRoutes == {"non_json", "error"}

FrameFails == listen.pc = "receive" /\ listen'.route \in FailedRoutes

\* C33: a frame whose parsing or handling fails is skipped: is_connected
\* and the reconnect counter are unchanged, no reconnection starts, the
\* frame is not kept for a retry, and the loop is ready for the next frame
C33_FailedFrameSkipped ==
    /\ [][FrameFails =>
            /\ interceptor'.is_connected = interceptor.is_connected
            /\ interceptor'.reconnect_attempts = interceptor.reconnect_attempts
            /\ interceptor'.is_running = interceptor.is_running
            /\ listen'.pc = "receive"
            /\ listen'.failures = listen.failures
            /\ listen'.waits = listen.waits
            /\ listen'.frame = NoFrame]_vars
    /\ [](listen.pc = "receive" /\ listen.route \in FailedRoutes =>
            ENABLED ReceiveFrame(Message("odds_update")))

C33_Witness ==
    /\ listen.pc = "receive"
    /\ listen.route = "error"
    /\ interceptor.is_connected
    /\ interceptor.reconnect_attempts = 0


\* no process_odds_update call is under way
NoCallRunning == \A c \in Tasks : calls[c].pc \in {"idle", "done", "raised"}

HasTTL(db, key) == key \in DOMAIN db.expires

\* C34: a store operation that fails part-way through process_odds_update
\* drops the update whole: once the call is over no snapshot is left in the
\* store without an expiry
C34_NoSnapshotWithoutTTL ==
    NoCallRunning => \A key \in DOMAIN redis.data : HasTTL(redis, key)


\* the listen task has not ended
LoopAlive == listen.pc \notin {"returned", "cancelled"}

\* C35: after the recovery action of the interceptor (close, then connect)
\* has completed successfully, whenever is_connected is true and the probe
\* answers healthy, a receive loop is running on the connection; the
\* formula asks only that the listen task has not ended
C35_RecoveredMeansReceiving ==
    (/\ recover.pc = "idle"
     /\ recover.succeeded
     /\ interceptor.is_connected
     /\ CheckInterceptorHealth(interceptor))
    => LoopAlive


\* C36: at most one heartbeat task is active at any time: the heartbeat
\* task of a connection has stopped before the task of the next one starts
C36_OneHeartbeatTask == heartbeat.tasks <= 1


\* the last probe of name answered healthy
LastProbeHealthy(name) ==
    probes[name].probed > 0 /\ probes[name].failed_since_success = 0

\* C37: a component whose probe answered healthy stays healthy with
\* consecutive_failures 0 also when the "recovered" notification fails: the
\* return of the notification, whatever it is, leaves the health records
\* and the failure and recovery counts alone and the monitor goes on to the
\* next component
C37_RecoveredAlertFailureOnlyLogged ==
    /\ [](\A name \in Registered :
            LastProbeHealthy(name) =>
                /\ component_health[name].status = "healthy"
                /\ component_health[name].consecutive_failures = 0)
    /\ [][monitor.pc = "recovered_alert" /\ monitor' # monitor =>
            /\ component_health' = component_health
            /\ monitor' = NextComponent(monitor)
            /\ system_stats'.component_failures = system_stats.component_failures
            /\ system_stats'.recoveries_triggered =
                  system_stats.recoveries_triggered]_vars

\* the "recovered" notification of a component failed and the monitor has
\* gone on
C37_Witness ==
    \E name \in Registered :
        /\ probes[name].recovered_alert = "failed"
        /\ probes[name].previous_status = "unhealthy"
        /\ component_health[name].status = "healthy"
        /\ monitor.pc \in {"check", "sleep"}


\* C38: whenever the session refresh loop has re-authenticated an expired
\* session successfully, the interceptor holds the new session data by the
\* time the loop sleeps until its next check
C38_RefreshedSessionHandedOver ==
    (acheron.refresh = "sleep" /\ acheron.reauthenticated)
    => interceptor.session_data = scout.session


\* the alert call of c ends in this step with the given outcome
AlertEnds(c, outcome) ==
    /\ notifier.alerts[c].pc = "sending"
    /\ notifier'.alerts[c].pc = "idle"
    /\ notifier'.alerts[c].outcome = outcome

\* C39: two alerts for the same event are never both sent within the
\* cooldown of each other, whoever the callers are and also when their
\* calls overlap; and an alert whose send failed starts no cooldown
C39_CooldownHolds ==
    /\ [][\A c \in Tasks :
            AlertEnds(c, "sent") =>
                LET since == notifier.since_sent[notifier.alerts[c].event_key]
                IN  since = NoAlert \/ since >= Cooldown]_vars
    /\ [][\A c \in Tasks :
            AlertEnds(c, "failed") =>
                notifier'.since_alert = notifier.since_alert]_vars


\* C40: whenever the proxy pool is not empty the current proxy index is a
\* position in it, so get_proxy never indexes outside the pool; and
\* get_proxy returns no proxy exactly when the pool is empty or the purpose
\* is not configured for proxying
C40_ProxyIndexInPool ==
    LET pm == proxy_manager
        call == pm.returned
    IN  /\ pm.proxy_pool # <<>> =>
              /\ 0 <= pm.current_proxy_index
              /\ pm.current_proxy_index < Len(pm.proxy_pool)
        /\ call.proxy # "IndexError"
        /\ call.purpose # "none" =>
              (call.proxy = "None" <=> (call.pool_size = 0 \/ ~call.configured))

\* the last proxy of a pool was in use and was removed, and the index is
\* back at the start of the pool that is left
C40_Witness ==
    /\ Len(proxy_manager.proxy_pool) = 2
    /\ proxy_manager.current_proxy_index = 0
    /\ proxy_manager.returned.pool_size = 3
    /\ proxy_manager.returned.proxy = "p2"
    /\ proxy_manager.returned.purpose = "websocket"
    /\ proxy_manager.proxy_pool = <<"p1", "p1">>

====
